---- MODULE Spec2Model ----
(***************************************************************************)
(* Retrieval-and-orchestration core of the NYVO voice insurance agent:     *)
(*   - lib/knowledge-base.ts : tokenize, scoreMatch, search*, buildContext *)
(*   - lib/tools.ts          : TOOLS catalog and executeTool               *)
(*   - app/api/chat/route.ts : POST handler with the bounded tool-use loop *)
(*                                                                         *)
(* Strings whose characters matter (queries, keywords, titles, text) are   *)
(* sequences of one-character strings.  Values that arrive untyped from    *)
(* JSON (request bodies, tool inputs) are tagged records, so that a        *)
(* missing or wrongly typed parameter behaves as it does in JavaScript.    *)
(***************************************************************************)
EXTENDS Integers, Sequences, FiniteSets, TLC

VARIABLES
    kb,            \* the corpus loaded at module load (knowledge-base.ts:4)
    env,           \* process.env entries read by the handlers
    sArgs,         \* arguments of the search call under test
    sOut,          \* value returned by the search call under test
    pc,            \* per question: state of the orchestration loop
    body,          \* per question: the caller's request body
    messages,      \* per question: the loop's working list of turns
    response,      \* per question: the last reasoning-engine response
    iterations,    \* per question: the loop counter of route.ts
    toolUseBlocks, \* per question: invocations of the round in progress
    toolResults,   \* per question: results gathered in the round
    inflight,      \* per question: engine calls issued and not yet settled
    engineCalls,   \* per question: number of engine calls issued so far
    lastRequest,   \* per question: the request of the last engine call
    dispatched,    \* per question: log of executeTool invocations
    httpResponse,  \* per question: the reply given to the caller
    pageStatus,    \* page: `status`, an AgentStatus (page.tsx:13)
    pageLanguage,  \* page: `language`, 'en' or 'hi' (page.tsx:14)
    chat,          \* page: the `messages` state, the chat shown (page.tsx:15)
    startRecording,   \* page: what the memoised startRecording closes over
    getUserMedia,     \* page: microphone requests awaiting permission
    mediaRecorderRef, \* page: the recorder in mediaRecorderRef.current
    stopping,         \* page: recorders stopped whose onstop is still to run
    transcribeFetches, \* page: pending fetch('/api/transcribe')
    chatFetches,       \* page: pending fetch('/api/chat')
    synthFetches,      \* page: pending fetch('/api/synthesize')
    audioPlayerRef,    \* page: the audio in audioPlayerRef.current
    userActions        \* page: number of user actions so far

vars == <<kb, env, sArgs, sOut, pc, body, messages, response, iterations,
          toolUseBlocks, toolResults, inflight, engineCalls, lastRequest,
          dispatched, httpResponse, pageStatus, pageLanguage, chat,
          startRecording,
          getUserMedia, mediaRecorderRef, stopping, transcribeFetches,
          chatFetches, synthFetches, audioPlayerRef, userActions>>

pageVars == <<pageStatus, pageLanguage, chat, startRecording, getUserMedia,
              mediaRecorderRef, stopping, transcribeFetches, chatFetches,
              synthFetches, audioPlayerRef, userActions>>
serverVars == <<kb, env, sArgs, sOut, pc, body, messages, response, iterations,
                toolUseBlocks, toolResults, inflight, engineCalls, lastRequest,
                dispatched, httpResponse>>
searchVars == <<sArgs, sOut, pageVars>>
loopVars == <<pc, body, messages, response, iterations, toolUseBlocks,
              toolResults, inflight, engineCalls, lastRequest, dispatched,
              httpResponse, pageVars>>

Null == [t |-> "null"]

(***************************************************************************)
(* JavaScript values                                                       *)
(***************************************************************************)
Undefined == [t |-> "undefined"]

\* No page is open: the server-side harnesses leave the page state unset.
NoPage ==
    /\ pageStatus = Null /\ pageLanguage = Null /\ chat = Null
    /\ startRecording = Null /\ getUserMedia = Null
    /\ mediaRecorderRef = Null /\ stopping = Null
    /\ transcribeFetches = Null /\ chatFetches = Null
    /\ synthFetches = Null /\ audioPlayerRef = Null /\ userActions = Null

Str(s) == [t |-> "string", s |-> s]
Num(n) == [t |-> "number", n |-> n]
Bool(b) == [t |-> "boolean", b |-> b]
Arr(a) == [t |-> "array", a |-> a]

IsStr(v) == v.t = "string"

\* ToBoolean: undefined, "", 0 and false are falsy.
Truthy(v) ==
    CASE v.t = "undefined" -> FALSE
      [] v.t = "null" -> FALSE
      [] v.t = "string" -> v.s # <<>>
      [] v.t = "number" -> v.n # 0
      [] v.t = "boolean" -> v.b
      [] OTHER -> TRUE

\* An exception leaving a function; every throw of the modelled code is a
\* TypeError raised by a method call on a value of the wrong type.
Throw == [ok |-> FALSE, error |-> "TypeError"]
Ok(v) == [ok |-> TRUE, val |-> v]

Min(a, b) == IF a <= b THEN a ELSE b
Max(a, b) == IF a >= b THEN a ELSE b

(***************************************************************************)
(* String primitives                                                       *)
(***************************************************************************)
LowerLetters == {"a", "b", "c", "d", "e", "f", "g", "h", "i", "j", "k", "l",
                 "m", "n", "o", "p", "q", "r", "s", "t", "u", "v", "w", "x",
                 "y", "z"}
Digits == {"0", "1", "2", "3", "4", "5", "6", "7", "8", "9"}
Whitespace == {" ", "\n", "\t"}

\* String.prototype.toLowerCase on one character.
LowerChar(c) ==
    CASE c = "A" -> "a"
      [] c = "B" -> "b"
      [] c = "C" -> "c"
      [] c = "D" -> "d"
      [] c = "E" -> "e"
      [] c = "F" -> "f"
      [] c = "G" -> "g"
      [] c = "H" -> "h"
      [] c = "I" -> "i"
      [] c = "J" -> "j"
      [] c = "K" -> "k"
      [] c = "L" -> "l"
      [] c = "M" -> "m"
      [] c = "N" -> "n"
      [] c = "O" -> "o"
      [] c = "P" -> "p"
      [] c = "Q" -> "q"
      [] c = "R" -> "r"
      [] c = "S" -> "s"
      [] c = "T" -> "t"
      [] c = "U" -> "u"
      [] c = "V" -> "v"
      [] c = "W" -> "w"
      [] c = "X" -> "x"
      [] c = "Y" -> "y"
      [] c = "Z" -> "z"
      [] OTHER -> c

toLowerCase(s) == [i \in 1..Len(s) |-> LowerChar(s[i])]

\* String.prototype.includes
includes(hay, needle) ==
    \E i \in 0..(Len(hay) - Len(needle)) :
        SubSeq(hay, i + 1, i + Len(needle)) = needle

\* String.prototype.substring(0, n)
substring0(s, n) == SubSeq(s, 1, Min(n, Len(s)))

\* Array.prototype.slice(0, n); a negative n counts from the end.
slice0(a, n) ==
    IF n >= 0 THEN SubSeq(a, 1, Min(n, Len(a)))
    ELSE SubSeq(a, 1, Max(Len(a) + n, 0))

\* Array.prototype.join
RECURSIVE join(_, _)
join(parts, sep) ==
    IF parts = <<>> THEN <<>>
    ELSE IF Len(parts) = 1 THEN parts[1]
    ELSE parts[1] \o sep \o join(Tail(parts), sep)

\* .replace(/[^a-z0-9\s]/g, ' ')
replaceNonAlnum(s) ==
    [i \in 1..Len(s) |->
        IF s[i] \in LowerLetters \cup Digits \cup Whitespace THEN s[i] ELSE " "]

\* .split(/\s+/): a run of whitespace is one separator; a separator at the
\* start or the end of the input yields an empty piece there.
RECURSIVE splitWs(_, _, _, _)
splitWs(s, acc, cur, inRun) ==
    IF s = <<>> THEN Append(acc, cur)
    ELSE IF s[1] \in Whitespace
         THEN IF inRun THEN splitWs(Tail(s), acc, cur, TRUE)
              ELSE splitWs(Tail(s), Append(acc, cur), <<>>, TRUE)
         ELSE splitWs(Tail(s), acc, Append(cur, s[1]), FALSE)

LongerThanTwo_atLeastTwo(t) == Len(t) >= 2

LongerThanTwo(t) == Len(t) > 2

tokenize(text) ==
    SelectSeq(splitWs(replaceNonAlnum(toLowerCase(text)), <<>>, <<>>, FALSE),
              LongerThanTwo)

(***************************************************************************)
(* Lexical scorer                                                          *)
(***************************************************************************)
KeywordHit_keywordInsideToken(itemKeywords, token) ==
    \E k \in 1..Len(itemKeywords) : includes(token, itemKeywords[k])

KeywordHit(itemKeywords, token) ==
    \E k \in 1..Len(itemKeywords) :
        includes(itemKeywords[k], token) \/ includes(token, itemKeywords[k])

RECURSIVE scoreMatch_oncePerToken(_, _, _)
scoreMatch_oncePerToken(itemKeywords, itemText, queryTokens) ==
    IF queryTokens = <<>> THEN 0
    ELSE (IF \E j \in 2..Len(queryTokens) : queryTokens[j] = queryTokens[1]
          THEN 0
          ELSE (IF KeywordHit(itemKeywords, queryTokens[1]) THEN 3 ELSE 0)
               + (IF includes(toLowerCase(itemText), queryTokens[1]) THEN 1 ELSE 0))
         + scoreMatch_oncePerToken(itemKeywords, itemText, Tail(queryTokens))

RECURSIVE scoreMatch(_, _, _)
scoreMatch(itemKeywords, itemText, queryTokens) ==
    IF queryTokens = <<>> THEN 0
    ELSE (IF KeywordHit(itemKeywords, queryTokens[1]) THEN 3 ELSE 0)
         + (IF includes(toLowerCase(itemText), queryTokens[1]) THEN 1 ELSE 0)
         + scoreMatch(itemKeywords, itemText, Tail(queryTokens))

(***************************************************************************)
(* Corpus (data/knowledge-base.json, shaped by lib/types.ts)               *)
(***************************************************************************)
catHealth == <<"h", "i">>
catTerm == <<"t", "i">>

wNcb == <<"n", "c", "b">>
wTax == <<"t", "a", "x">>
wOpd == <<"o", "p", "d">>
wCash == <<"c", "a", "s", "h">>
wStar == <<"s", "t", "a", "r">>
wLic == <<"l", "i", "c">>
wGold == <<"g", "o", "l", "d">>
sp == <<" ">>

\* n characters of body text that hold no word of any query.
Filler(n) == [i \in 1..n |-> "."]

ArticlePool ==
    << [id |-> <<"a", "1">>, title |-> <<"N", "C", "B">>, category |-> catHealth,
        keywords |-> <<wNcb>>,
        chunks |-> <<wNcb \o sp \o wTax, wOpd, wCash>>],
       [id |-> <<"a", "2">>, title |-> <<"T", "a", "x">>, category |-> catTerm,
        keywords |-> <<wTax>>,
        chunks |-> <<wTax \o sp \o <<"8", "0", "d">> >>],
       [id |-> <<"a", "3">>, title |-> <<"O", "p", "d">>, category |-> catHealth,
        keywords |-> <<wTax, wOpd>>,
        chunks |-> <<wOpd \o sp \o wTax, wCash, Filler(500) \o sp \o wNcb>>] >>

PolicyPool ==
    << [id |-> <<"p", "1">>, name |-> <<"C", "a", "r", "e">>,
        insurerName |-> <<"S", "t", "a", "r">>, insurerId |-> wStar,
        category |-> catHealth, summary |-> wOpd \o sp \o wNcb \o sp \o wTax,
        keywords |-> <<wOpd>>],
       [id |-> <<"p", "2">>, name |-> <<"T", "e", "r", "m">>,
        insurerName |-> <<"L", "I", "C">>, insurerId |-> wLic,
        category |-> catTerm, summary |-> wTax,
        keywords |-> <<wTax>>],
       [id |-> <<"p", "3">>, name |-> <<"O", "p", "t", "i">>,
        insurerName |-> <<"S", "t", "a", "r">>, insurerId |-> wStar,
        category |-> catHealth, summary |-> wTax \o sp \o wOpd,
        keywords |-> <<wOpd>>],
       [id |-> <<"p", "4">>, name |-> <<"P", "l", "u", "s">>,
        insurerName |-> <<"L", "I", "C">>, insurerId |-> wLic,
        category |-> catTerm, summary |-> wTax \o sp \o wNcb,
        keywords |-> <<wTax>>] >>

GuidePool ==
    << [id |-> <<"g", "1">>, title |-> <<"C", "a", "s", "h">>,
        category |-> catHealth, content |-> wCash \o sp \o wNcb,
        keywords |-> <<wCash>>],
       [id |-> <<"g", "2">>, title |-> <<"t", "e", "r", "m">>,
        category |-> catTerm, content |-> wTax \o sp \o wCash,
        keywords |-> <<wCash, wTax>>],
       [id |-> <<"g", "3">>, title |-> <<"o", "p", "d">>,
        category |-> catHealth,
        content |-> wCash \o sp \o wOpd \o Filler(1500) \o sp \o wNcb,
        keywords |-> <<wCash>>],
       [id |-> <<"g", "4">>, title |-> <<"n", "c", "b">>,
        category |-> catHealth, content |-> wNcb \o sp \o wCash,
        keywords |-> <<wCash>>] >>

InsurerPool ==
    << [id |-> wStar, name |-> <<"S", "t", "a", "r">>, shortName |-> <<"S", "H">>,
        type |-> catHealth, renewalLink |-> <<"u", "r", "l">>],
       [id |-> wLic, name |-> <<"L", "I", "C">>, shortName |-> <<"L", "I", "C">>,
        type |-> catTerm, renewalLink |-> <<>>] >>

\* The orders in which a snapshot may list three documents.
Orders3 == {p \in [1..3 -> 1..3] : \A i, j \in 1..3 : p[i] = p[j] => i = j}

MakeKB(p) ==
    [articles |-> [i \in 1..3 |-> ArticlePool[p[i]]],
     policies |-> [i \in 1..4 |-> IF i = 4 THEN PolicyPool[4] ELSE PolicyPool[p[i]]],
     claimsGuides |-> [i \in 1..4 |-> IF i = 4 THEN GuidePool[4] ELSE GuidePool[p[i]]],
     insurers |-> InsurerPool]

Corpora == {MakeKB(p) : p \in Orders3}

DefaultKB == MakeKB([i \in 1..3 |-> i])

(***************************************************************************)
(* Collection search                                                       *)
(***************************************************************************)
RECURSIVE insertByScore_ties(_, _)
insertByScore_ties(sorted, x) ==
    IF sorted = <<>> THEN <<x>>
    ELSE IF sorted[1].score > x.score
         THEN <<sorted[1]>> \o insertByScore_ties(Tail(sorted), x)
         ELSE <<x>> \o sorted

\* One insertion step of a stable descending sort: x goes after every
\* element whose score is at least its own.
RECURSIVE insertByScore(_, _)
insertByScore(sorted, x) ==
    IF sorted = <<>> THEN <<x>>
    ELSE IF sorted[1].score >= x.score
         THEN <<sorted[1]>> \o insertByScore(Tail(sorted), x)
         ELSE <<x>> \o sorted

\* .sort((a, b) => b.score - a.score); Array.prototype.sort is stable.
RECURSIVE sortByScore(_)
sortByScore(scored) ==
    IF scored = <<>> THEN <<>>
    ELSE insertByScore(sortByScore(SubSeq(scored, 1, Len(scored) - 1)),
                       scored[Len(scored)])

HasScore_any(s) == s.score >= 0

HasScore(s) == s.score > 0

rank_truncateFirst(scored, maxResults) ==
    LET top == sortByScore(slice0(SelectSeq(scored, HasScore), maxResults.n))
    IN  [i \in 1..Len(top) |-> top[i].item]

\* .filter(s => s.score > 0).sort(...).slice(0, maxResults).map(s => s.item)
rank(scored, maxResults) ==
    LET top == slice0(sortByScore(SelectSeq(scored, HasScore)), maxResults.n)
    IN  [i \in 1..Len(top) |-> top[i].item]

articleText(a) == a.title \o sp \o substring0(join(a.chunks, sp), 500)
policyText(p) == p.name \o sp \o p.summary
guideText(g) == g.title \o sp \o substring0(g.content, 500)

byCategory_none(docs, category) == docs

byCategory(docs, category) ==
    IF Truthy(category)
    THEN SelectSeq(docs, LAMBDA d : Str(d.category) = category)
    ELSE docs

insurerMatches(p, lower) ==
    \/ includes(toLowerCase(p.insurerName), lower)
    \/ includes(toLowerCase(p.insurerId), lower)

\* A parameter declared with a default: `maxResults = 3`.
orDefault(v, d) == IF v.t = "undefined" THEN Num(d) ELSE v

searchArticles(kbv, query, category, maxResults) ==
    IF ~IsStr(query) THEN Throw
    ELSE LET tokens == tokenize(query.s)
             articles == byCategory(kbv.articles, category)
             scored == [i \in 1..Len(articles) |->
                          [item |-> articles[i],
                           score |-> scoreMatch(articles[i].keywords,
                                                articleText(articles[i]), tokens)]]
         IN  Ok(rank(scored, orDefault(maxResults, 3)))

searchPolicies(kbv, query, category, insurerName, maxResults) ==
    IF ~IsStr(query) THEN Throw
    ELSE IF Truthy(insurerName) /\ ~IsStr(insurerName) THEN Throw
    ELSE LET tokens == tokenize(query.s)
             inCat == byCategory(kbv.policies, category)
             policies ==
                 IF Truthy(insurerName)
                 THEN SelectSeq(inCat, LAMBDA p :
                          insurerMatches(p, toLowerCase(insurerName.s)))
                 ELSE inCat
             scored == [i \in 1..Len(policies) |->
                          [item |-> policies[i],
                           score |-> scoreMatch(policies[i].keywords,
                                                policyText(policies[i]), tokens)]]
         IN  Ok(rank(scored, orDefault(maxResults, 5)))

searchClaimsGuides(kbv, query, category) ==
    IF ~IsStr(query) THEN Throw
    ELSE LET tokens == tokenize(query.s)
             guides == byCategory(kbv.claimsGuides, category)
             scored == [i \in 1..Len(guides) |->
                          [item |-> guides[i],
                           score |-> scoreMatch(guides[i].keywords,
                                                guideText(guides[i]), tokens)]]
         IN  Ok(rank(scored, Num(3)))

getPoliciesByInsurer(kbv, insurerName) ==
    SelectSeq(kbv.policies, LAMBDA p : insurerMatches(p, toLowerCase(insurerName)))

\* kb.policies.find(p => p.id === id || p.name.toLowerCase().includes(id.toLowerCase()))
findPolicy(kbv, id) ==
    LET hits == SelectSeq(kbv.policies, LAMBDA p :
                    p.id = id \/ includes(toLowerCase(p.name), toLowerCase(id)))
    IN  IF hits = <<>> THEN <<>> ELSE <<hits[1]>>

RECURSIVE flatten(_)
flatten(ss) == IF ss = <<>> THEN <<>> ELSE ss[1] \o flatten(Tail(ss))

comparePolicies(kbv, policyIds) ==
    IF policyIds.t # "array" THEN Throw
    ELSE IF kbv.policies # <<>> /\ \E i \in 1..Len(policyIds.a) : ~IsStr(policyIds.a[i])
    THEN Throw
    ELSE Ok(flatten([i \in 1..Len(policyIds.a) |-> findPolicy(kbv, policyIds.a[i].s)]))

getInsurer(kbv, name) ==
    IF ~IsStr(name) THEN Throw
    ELSE LET lower == toLowerCase(name.s)
             hits == SelectSeq(kbv.insurers, LAMBDA i :
                         \/ includes(toLowerCase(i.name), lower)
                         \/ includes(toLowerCase(i.shortName), lower)
                         \/ includes(toLowerCase(i.id), lower))
         IN  Ok(IF hits = <<>> THEN Undefined ELSE hits[1])


(***************************************************************************)
(* Coverage calculators (lib/calculator.ts)                                *)
(***************************************************************************)
cityMetro == <<"m", "e", "t", "r", "o">>
cityTier1 == <<"t", "i", "e", "r", "1">>
cityTier2 == <<"t", "i", "e", "r", "2">>

BASE_HOSPITAL_COST == 500000

\* CITY_MULTIPLIERS[city_tier] || 1.0, in tenths.
cityMultiplier10(city_tier) ==
    CASE city_tier = Str(cityMetro) -> 15
      [] city_tier = Str(cityTier1) -> 12
      [] OTHER -> 10

getAgeGroup(age) ==
    IF age <= 18 THEN "child"
    ELSE IF age <= 35 THEN "young"
    ELSE IF age <= 50 THEN "middle"
    ELSE IF age <= 65 THEN "senior"
    ELSE "elderly"

\* AGE_RISK_FACTOR, in tenths.
ageRisk10(group) ==
    CASE group = "child" -> 5
      [] group = "young" -> 8
      [] group = "middle" -> 12
      [] group = "senior" -> 18
      [] group = "elderly" -> 25

RECURSIVE maxOf(_)
maxOf(nums) ==
    IF Len(nums) = 1 THEN nums[1].n ELSE Max(nums[1].n, maxOf(Tail(nums)))

\* Math.ceil(totalNeed / 500000), where totalNeed is BASE_HOSPITAL_COST times
\* a / 10^5 times 1.1^10 and a / 10^5 is the product of the city, age,
\* pre-existing and family factors.  BASE_HOSPITAL_COST equals the divisor,
\* so the value is ceil(a * 25937424601 / 10^15), multiplied out in
\* base-1000 limbs to stay within 32-bit integers.
ceilProjected(a) ==
    LET a0 == a % 1000
        a1 == a \div 1000
        c0 == a0 * 601
        c1 == a0 * 424 + a1 * 601
        c2 == a0 * 937 + a1 * 424
        c3 == a0 * 25 + a1 * 937
        c4 == a1 * 25
        t1 == c1 + (c0 \div 1000)
        t2 == c2 + (t1 \div 1000)
        t3 == c3 + (t2 \div 1000)
        t4 == c4 + (t3 \div 1000)
        exact == c0 % 1000 = 0 /\ t1 % 1000 = 0 /\ t2 % 1000 = 0
                 /\ t3 % 1000 = 0 /\ t4 % 1000 = 0
    IN  (t4 \div 1000) + (IF exact THEN 0 ELSE 1)

basePlanOf_uncapped(gapLakhs) == gapLakhs

\* let basePlan = Math.min(gapLakhs, 25); if (gapLakhs > 25) basePlan = 15
basePlanOf(gapLakhs) == IF gapLakhs > 25 THEN 15 ELSE Min(gapLakhs, 25)

calculateHealthCoverage(input) ==
    IF input.family_members.t # "array" THEN Throw
    ELSE
    LET ages == input.family_members.a
        \* Math.max() of no arguments is -Infinity, which is <= 18
        ageGroup == IF ages = <<>> THEN "child" ELSE getAgeGroup(maxOf(ages))
        ageRisk == ageRisk10(ageGroup)
        uplift10 == IF Truthy(input.has_preexisting) THEN 14 ELSE 10
        familyFactor100 == 100 + (Len(ages) - 1) * 15
        recommendedLakhs ==
            ceilProjected(cityMultiplier10(input.city_tier) * ageRisk
                          * uplift10 * familyFactor100) * 5
        corporateLakhs ==
            IF Truthy(input.corporate_cover) THEN input.corporate_cover.n ELSE 0
        gapLakhs == Max(0, recommendedLakhs - corporateLakhs)
        basePlan == basePlanOf(gapLakhs)
        superTopup == IF gapLakhs > 25 THEN gapLakhs - basePlan
                      ELSE Max(0, gapLakhs - basePlan)
    IN  Ok([recommended_cover_lakhs |-> recommendedLakhs,
            base_plan_lakhs |-> basePlan,
            super_topup_lakhs |-> superTopup,
            coverage_gap_lakhs |-> gapLakhs,
            estimated_premium_range |->
                [min |-> basePlan * 80 * ageRisk, max |-> basePlan * 120 * ageRisk],
            reasoning |-> <<"city", ageGroup>>
                \o (IF Truthy(input.has_preexisting) THEN <<"preexisting">> ELSE <<>>)
                \o <<"projected", "family">>
                \o (IF corporateLakhs > 0 THEN <<"corporate">> ELSE <<>>)
                \o (IF gapLakhs > 25 THEN <<"split">> ELSE <<"single">>)])

\* Amounts that can be half a rupee (income times a multiplier of n/2) are
\* kept doubled, in fields named *_x2; recommended_cover_quarter_cr counts
\* quarters of a crore (Math.ceil(gap / 2500000) * 0.25).
calculateTermCoverage(input) ==
    LET yearsToRetirement == Max(1, input.retirement_age.n - input.current_age.n)
        multiplier_x2 == Min(30, Max(20, yearsToRetirement))
        incomeReplacement_x2 == input.annual_income.n * multiplier_x2
        debtCover == input.total_debts.n
        educationFund == input.num_children.n * input.education_goal_per_child.n
        totalNeed_x2 == incomeReplacement_x2 + 2 * debtCover + 2 * educationFund
        existingCover == input.existing_life_cover.n
        gap_x2 == Max(0, totalNeed_x2 - 2 * existingCover)
        quarters == (gap_x2 + 4999999) \div 5000000
        recommendedTenure ==
            Min(40, Max(20, input.retirement_age.n - input.current_age.n + 5))
        ageFactor10 == IF input.current_age.n <= 30 THEN 10
                       ELSE IF input.current_age.n <= 40 THEN 15 ELSE 22
    IN  Ok([recommended_cover_quarter_cr |-> quarters,
            income_replacement_x2 |-> incomeReplacement_x2,
            debt_cover |-> debtCover,
            education_fund |-> educationFund,
            total_need_x2 |-> totalNeed_x2,
            gap_x2 |-> gap_x2,
            recommended_tenure |-> recommendedTenure,
            estimated_premium_range |->
                [min |-> 1250 * quarters * ageFactor10,
                 max |-> 1875 * quarters * ageFactor10],
            reasoning |-> <<"income">>
                \o (IF debtCover > 0 THEN <<"debts">> ELSE <<>>)
                \o (IF educationFund > 0 THEN <<"education">> ELSE <<>>)
                \o <<"total">>
                \o (IF existingCover > 0 THEN <<"existing">> ELSE <<>>)
                \o <<"tenure", "premium">>])

(***************************************************************************)
(* Capability registry (lib/tools.ts)                                      *)
(*                                                                         *)
(* A result text is a record: `kind` names the template the code fills in  *)
(* and the other fields are the values interpolated into it.               *)
(***************************************************************************)
TOOLS_withUnhandledName ==
    << "search_insurance_knowledge", "search_policies", "compare_policies",
       "calculate_health_coverage", "calculate_term_coverage",
       "get_claims_guidance", "get_insurer_details", "book_consultation",
       "lookup_premium" >>

\* The names of the TOOLS catalog, in catalog order.
TOOLS ==
    << "search_insurance_knowledge", "search_policies", "compare_policies",
       "calculate_health_coverage", "calculate_term_coverage",
       "get_claims_guidance", "get_insurer_details", "book_consultation" >>

ToolNames == {TOOLS[i] : i \in 1..Len(TOOLS)}

DEFAULT_BOOKING_URL == <<"g", "c", "a", "l">>

\* toolInput.key: a key the payload lacks reads as undefined.
Get(toolInput, key) ==
    IF key \in DOMAIN toolInput THEN toolInput[key] ELSE Undefined

\* (value as T) || fallback
orElse(v, fallback) == IF Truthy(v) THEN v ELSE fallback

policyCard(p) == [name |-> p.name, insurerName |-> p.insurerName, summary |-> p.summary]

unknownTool_throws(toolName) == Throw

\* default: return `Unknown tool: ${toolName}`
unknownTool(toolName) == Ok([kind |-> "unknown_tool", name |-> toolName])

executeTool(kbv, envv, toolName, toolInput) ==
    CASE toolName = "search_insurance_knowledge" ->
            LET r == searchArticles(kbv, Get(toolInput, "query"),
                                    Get(toolInput, "category"), Num(3))
            IN  IF ~r.ok THEN r
                ELSE IF Len(r.val) = 0 THEN Ok([kind |-> "no_articles"])
                ELSE Ok([kind |-> "articles",
                         items |-> [i \in 1..Len(r.val) |->
                            [title |-> r.val[i].title,
                             category |-> r.val[i].category,
                             chunks |-> join(slice0(r.val[i].chunks, 2),
                                             <<"\n", "\n">>)]]])
      [] toolName = "search_policies" ->
            LET r == searchPolicies(kbv, Get(toolInput, "query"),
                                    Get(toolInput, "category"),
                                    Get(toolInput, "insurer_name"), Num(5))
            IN  IF ~r.ok THEN r
                ELSE IF Len(r.val) = 0 THEN Ok([kind |-> "no_policies"])
                ELSE Ok([kind |-> "policies",
                         items |-> [i \in 1..Len(r.val) |-> policyCard(r.val[i])]])
      [] toolName = "compare_policies" ->
            LET r == comparePolicies(kbv, Get(toolInput, "policy_identifiers"))
            IN  IF ~r.ok THEN r
                ELSE IF Len(r.val) < 2
                THEN Ok([kind |-> "compare_too_few", found |-> Len(r.val),
                         names |-> [i \in 1..Len(r.val) |-> r.val[i].name]])
                ELSE Ok([kind |-> "comparison",
                         items |-> [i \in 1..Len(r.val) |-> policyCard(r.val[i])]])
      [] toolName = "calculate_health_coverage" ->
            LET r == calculateHealthCoverage(
                        [city_tier |-> orElse(Get(toolInput, "city_tier"), Str(cityMetro)),
                         family_members |-> orElse(Get(toolInput, "family_members"),
                                                   Arr(<<Num(30)>>)),
                         has_preexisting |-> orElse(Get(toolInput, "has_preexisting"),
                                                    Bool(FALSE)),
                         corporate_cover |-> orElse(Get(toolInput, "corporate_cover"), Num(0)),
                         monthly_income |-> orElse(Get(toolInput, "monthly_income"), Num(0))])
            IN  IF ~r.ok THEN r ELSE Ok([kind |-> "health_coverage", result |-> r.val])
      [] toolName = "calculate_term_coverage" ->
            LET r == calculateTermCoverage(
                        [annual_income |-> orElse(Get(toolInput, "annual_income"), Num(0)),
                         monthly_expenses |-> orElse(Get(toolInput, "monthly_expenses"), Num(0)),
                         total_debts |-> orElse(Get(toolInput, "total_debts"), Num(0)),
                         num_children |-> orElse(Get(toolInput, "num_children"), Num(0)),
                         education_goal_per_child |->
                             orElse(Get(toolInput, "education_goal_per_child"), Num(2500000)),
                         existing_life_cover |->
                             orElse(Get(toolInput, "existing_life_cover"), Num(0)),
                         current_age |-> orElse(Get(toolInput, "current_age"), Num(30)),
                         retirement_age |-> orElse(Get(toolInput, "retirement_age"), Num(60))])
            IN  Ok([kind |-> "term_coverage", result |-> r.val])
      [] toolName = "get_claims_guidance" ->
            LET r == searchClaimsGuides(kbv, Get(toolInput, "query"),
                                        Get(toolInput, "insurance_type"))
            IN  IF ~r.ok THEN r
                ELSE IF Len(r.val) = 0 THEN Ok([kind |-> "no_claims_guide"])
                ELSE Ok([kind |-> "claims_guides",
                         items |-> [i \in 1..Len(r.val) |->
                            [title |-> r.val[i].title,
                             content |-> substring0(r.val[i].content, 2000)]]])
      [] toolName = "get_insurer_details" ->
            LET r == getInsurer(kbv, Get(toolInput, "insurer_name"))
            IN  IF ~r.ok THEN r
                ELSE IF r.val = Undefined
                THEN Ok([kind |-> "insurer_not_found",
                         name |-> Get(toolInput, "insurer_name")])
                ELSE LET policies == getPoliciesByInsurer(kbv, r.val.name)
                     IN  Ok([kind |-> "insurer",
                             lines |-> <<[line |-> "name", name |-> r.val.name,
                                          shortName |-> r.val.shortName],
                                         [line |-> "type", type |-> r.val.type]>>
                                 \o (IF r.val.renewalLink # <<>>
                                     THEN <<[line |-> "renewal",
                                             link |-> r.val.renewalLink]>>
                                     ELSE <<>>)
                                 \o (IF Len(policies) > 0
                                     THEN <<[line |-> "plans",
                                             names |-> [i \in 1..Len(policies) |->
                                                           policies[i].name]]>>
                                     ELSE <<>>)])
      [] toolName = "book_consultation" ->
            Ok([kind |-> "booking",
                bookingUrl |-> orElse(envv.NEXT_PUBLIC_BOOKING_URL,
                                      Str(DEFAULT_BOOKING_URL)),
                reason |-> Get(toolInput, "reason")])
      [] OTHER -> unknownTool(toolName)

(***************************************************************************)
(* Context assembler (knowledge-base.ts, buildContext)                     *)
(***************************************************************************)
\* The parts pushed by buildContext, in order; the returned string is their
\* join, so it is empty exactly when no part was pushed.
articleExcerpt(article) ==
    [part |-> "excerpt", section |-> "articles",
     title |-> article.title, label |-> article.category,
     text |-> join(slice0(article.chunks, 2), <<"\n", "\n">>)]

policyExcerpt(policy) ==
    [part |-> "excerpt", section |-> "policies",
     title |-> policy.name, label |-> policy.insurerName,
     text |-> policy.summary]

claimsExcerpt_whole(guide) ==
    [part |-> "excerpt", section |-> "claims",
     title |-> guide.title, label |-> <<>>,
     text |-> guide.content]

claimsExcerpt(guide) ==
    [part |-> "excerpt", section |-> "claims",
     title |-> guide.title, label |-> <<>>,
     text |-> substring0(guide.content, 1500)]

pushSection_always(name, excerpts) ==
    <<[part |-> "header", section |-> name]>> \o excerpts

\* if (hits.length > 0) { parts.push(header); for (...) parts.push(excerpt) }
pushSection(name, excerpts) ==
    IF Len(excerpts) > 0
    THEN <<[part |-> "header", section |-> name]>> \o excerpts
    ELSE <<>>

buildContext(kbv, query) ==
    LET articles == searchArticles(kbv, query, Undefined, Num(2))
        policies == searchPolicies(kbv, query, Undefined, Undefined, Num(3))
        claims == searchClaimsGuides(kbv, query, Undefined)
    IN  IF ~articles.ok THEN Throw
        ELSE Ok(pushSection("articles",
                    [i \in 1..Len(articles.val) |-> articleExcerpt(articles.val[i])])
                \o pushSection("policies",
                    [i \in 1..Len(policies.val) |-> policyExcerpt(policies.val[i])])
                \o pushSection("claims",
                    [i \in 1..Len(claims.val) |-> claimsExcerpt(claims.val[i])]))

(***************************************************************************)
(* Orchestration loop (app/api/chat/route.ts, POST)                        *)
(***************************************************************************)
maxIterations == 5
HISTORY_WINDOW == 10

Blocks(bs) == [t |-> "blocks", blocks |-> bs]
TextBlock(text) == [type |-> "text", text |-> text]
ToolUse(id, name, input) == [type |-> "tool_use", id |-> id, name |-> name, input |-> input]

IsToolUse(b) == b.type = "tool_use"
IsText(b) == b.type = "text"

sliceLast_fromStart(a, n) == SubSeq(a, 1, Min(n, Len(a)))

\* Array.prototype.slice(-n)
sliceLast(a, n) == SubSeq(a, Max(1, Len(a) - n + 1), Len(a))

\* The engine's texts; one of them quotes a booking link the way the
\* book_consultation result prints it.
TextWithBookingUrl == "Book here: {\"bookingUrl\": \"https://cal/x\"}"
Texts == {"Let me check.", "NCB is a renewal discount.", TextWithBookingUrl}

\* block.text.includes('bookingUrl') && block.text.match(/"bookingUrl":\s*"([^"]+)"/)
matchBookingUrl(text) ==
    IF text = TextWithBookingUrl THEN Str(<<"c", "a", "l", "x">>) ELSE Null

RECURSIVE lastBookingUrl(_, _)
lastBookingUrl(content, found) ==
    IF content = <<>> THEN found
    ELSE lastBookingUrl(Tail(content),
            IF IsText(content[1]) /\ matchBookingUrl(content[1].text) # Null
            THEN matchBookingUrl(content[1].text) ELSE found)

shouldContinue_offByOne(resp, iters) ==
    resp.stop_reason = "tool_use" /\ iters <= maxIterations

shouldContinue_noCap(resp, iters) == resp.stop_reason = "tool_use"

\* while (response.stop_reason === 'tool_use' && iterations < maxIterations)
shouldContinue(resp, iters) ==
    resp.stop_reason = "tool_use" /\ iters < maxIterations

extractText_firstOnly(content) ==
    LET textBlocks == SelectSeq(content, IsText)
    IN  IF textBlocks = <<>> THEN <<>> ELSE <<textBlocks[1].text>>

\* textBlocks.map((b) => b.text).join('\n')
extractText(content) ==
    LET textBlocks == SelectSeq(content, IsText)
    IN  join([i \in 1..Len(textBlocks) |-> <<textBlocks[i].text>>], <<"\n">>)

okResponse(resp) ==
    LET uses == SelectSeq(resp.content, IsToolUse)
    IN  [status |-> 200,
         message |-> extractText(resp.content),
         bookingUrl |-> lastBookingUrl(resp.content, Null),
         toolsUsed |-> [i \in 1..Len(uses) |-> uses[i].name]]

chatFailed_asAnswer(details) ==
    [status |-> 200, error |-> "Chat failed", details |-> details]

\* catch: { error: 'Chat failed', details: errorMessage }, status 500
chatFailed(details) ==
    [status |-> 500, error |-> "Chat failed", details |-> details]

rejected_asServerError(status, error) == [status |-> 500, error |-> error]

\* NextResponse.json({ error }, { status })
rejected(status, error) == [status |-> status, error |-> error]

toolResultFor_byName(toolUse, text) ==
    [type |-> "tool_result", tool_use_id |-> toolUse.name, content |-> text]

\* { type: 'tool_result', tool_use_id: toolUse.id, content: executeTool(...) }
toolResultFor(toolUse, text) ==
    [type |-> "tool_result", tool_use_id |-> toolUse.id, content |-> text]

roundComplete_afterFirst(results, blocks) == Len(results) >= Min(1, Len(blocks))

\* toolUseBlocks.map(...) has produced a result for every block
roundComplete(results, blocks) == Len(results) = Len(blocks)

settle_keepPending(pending, call) == pending

\* `await` resumes: the call is no longer outstanding
settle(pending, call) == pending \ {call}

\* The request of anthropic.messages.create
engineRequest(system, msgs) == [system |-> system, tools |-> TOOLS, messages |-> msgs]

augmentedSystem_noFallback(language, ragContext) ==
    [language |-> IF language = Str(<<"h", "i">>) THEN "Hindi" ELSE "English",
     hindiDirective |-> language = Str(<<"h", "i">>),
     context |-> ragContext]

\* `${ragContext || 'No specific context found ...'}`
augmentedSystem(language, ragContext) ==
    [language |-> IF language = Str(<<"h", "i">>) THEN "Hindi" ELSE "English",
     hindiDirective |-> language = Str(<<"h", "i">>),
     context |-> IF ragContext = <<>> THEN <<[part |-> "fallback"]>> ELSE ragContext]

\* POST, up to its first await of the engine
Receive(q, Bodies) ==
    /\ pc[q] = "Idle"
    /\ \E b \in Bodies :
        /\ body' = [body EXCEPT ![q] = b]
        /\ IF ~Truthy(env.ANTHROPIC_API_KEY)
           THEN /\ pc' = [pc EXCEPT ![q] = "Rejected"]
                /\ httpResponse' = [httpResponse EXCEPT ![q] =
                        rejected(500, "Anthropic API key not configured")]
                /\ UNCHANGED <<messages, inflight, engineCalls, lastRequest>>
           ELSE IF b.t = "malformed"
           THEN /\ pc' = [pc EXCEPT ![q] = "Failed"]
                /\ httpResponse' = [httpResponse EXCEPT ![q] = chatFailed("SyntaxError")]
                /\ UNCHANGED <<messages, inflight, engineCalls, lastRequest>>
           ELSE IF ~Truthy(b.message)
           THEN /\ pc' = [pc EXCEPT ![q] = "Rejected"]
                /\ httpResponse' = [httpResponse EXCEPT ![q] =
                        rejected(400, "No message provided")]
                /\ UNCHANGED <<messages, inflight, engineCalls, lastRequest>>
           ELSE LET ragContext == buildContext(kb, b.message)
                    conversationHistory ==
                        IF b.conversationHistory = Undefined THEN <<>>
                        ELSE b.conversationHistory.a
                    language ==
                        IF b.language = Undefined THEN Str(<<"e", "n">>) ELSE b.language
                    recentHistory == sliceLast(conversationHistory, HISTORY_WINDOW)
                    msgs == [i \in 1..Len(recentHistory) |->
                                [role |-> recentHistory[i].role,
                                 content |-> recentHistory[i].content]]
                            \o <<[role |-> "user", content |-> b.message]>>
                IN  IF ~ragContext.ok
                    THEN /\ pc' = [pc EXCEPT ![q] = "Failed"]
                         /\ httpResponse' = [httpResponse EXCEPT ![q] =
                                chatFailed(ragContext.error)]
                         /\ UNCHANGED <<messages, inflight, engineCalls, lastRequest>>
                    ELSE /\ messages' = [messages EXCEPT ![q] = msgs]
                         /\ lastRequest' = [lastRequest EXCEPT ![q] =
                                engineRequest(augmentedSystem(language, ragContext.val), msgs)]
                         /\ engineCalls' = [engineCalls EXCEPT ![q] = @ + 1]
                         /\ inflight' = [inflight EXCEPT ![q] = @ \cup {engineCalls[q] + 1}]
                         /\ pc' = [pc EXCEPT ![q] = "AwaitingModel"]
                         /\ UNCHANGED httpResponse
    /\ UNCHANGED <<kb, env, searchVars, response, iterations, toolUseBlocks,
                   toolResults, dispatched>>

\* An awaited engine call resolves; the loop condition is evaluated and
\* either a round starts or the final reply is built.
EngineReturn(q, Resps) ==
    /\ pc[q] = "AwaitingModel"
    /\ \E call \in inflight[q], resp \in Resps :
        /\ inflight' = [inflight EXCEPT ![q] = settle(@, call)]
        /\ response' = [response EXCEPT ![q] = resp]
        /\ IF shouldContinue(resp, iterations[q])
           THEN /\ iterations' = [iterations EXCEPT ![q] = @ + 1]
                /\ toolUseBlocks' = [toolUseBlocks EXCEPT ![q] =
                        SelectSeq(resp.content, IsToolUse)]
                /\ toolResults' = [toolResults EXCEPT ![q] = <<>>]
                /\ pc' = [pc EXCEPT ![q] = "AwaitingToolResults"]
                /\ UNCHANGED httpResponse
           ELSE /\ pc' = [pc EXCEPT ![q] = "Done"]
                /\ httpResponse' = [httpResponse EXCEPT ![q] = okResponse(resp)]
                /\ UNCHANGED <<iterations, toolUseBlocks, toolResults>>
    /\ UNCHANGED <<kb, env, searchVars, body, messages, engineCalls, lastRequest,
                   dispatched>>

\* An awaited engine call rejects; the catch block replies.
EngineFail(q) ==
    /\ pc[q] = "AwaitingModel"
    /\ \E call \in inflight[q] :
        inflight' = [inflight EXCEPT ![q] = settle(@, call)]
    /\ pc' = [pc EXCEPT ![q] = "Failed"]
    /\ httpResponse' = [httpResponse EXCEPT ![q] = chatFailed("APIError")]
    /\ UNCHANGED <<kb, env, searchVars, body, messages, response, iterations,
                   toolUseBlocks, toolResults, engineCalls, lastRequest, dispatched>>

\* One callback of toolUseBlocks.map: the next invocation is executed; an
\* exception leaves the loop through the catch block.
corpusAfter_sortedInPlace(kbv, toolName, toolInput) ==
    IF toolName = "search_policies" /\ IsStr(Get(toolInput, "query"))
    THEN LET tokens == tokenize(Get(toolInput, "query").s)
             scored == [i \in 1..Len(kbv.policies) |->
                          [item |-> kbv.policies[i],
                           score |-> scoreMatch(kbv.policies[i].keywords,
                                                policyText(kbv.policies[i]), tokens)]]
             sorted == sortByScore(scored)
         IN  [kbv EXCEPT !.policies = [i \in 1..Len(sorted) |-> sorted[i].item]]
    ELSE kbv

\* The corpus after executeTool: the searches sort and slice the array that
\* map and filter made from kb.<collection>; find and filter only read.
corpusAfter(kbv, toolName, toolInput) == kbv

ExecuteNextTool(q) ==
    /\ pc[q] = "AwaitingToolResults"
    /\ Len(toolResults[q]) < Len(toolUseBlocks[q])
    /\ LET toolUse == toolUseBlocks[q][Len(toolResults[q]) + 1]
           r == executeTool(kb, env, toolUse.name, toolUse.input)
       IN  /\ kb' = corpusAfter(kb, toolUse.name, toolUse.input)
           /\ dispatched' = [dispatched EXCEPT ![q] =
                    Append(@, [round |-> iterations[q], id |-> toolUse.id,
                               name |-> toolUse.name, input |-> toolUse.input])]
           /\ IF r.ok
              THEN /\ toolResults' = [toolResults EXCEPT ![q] =
                            Append(@, toolResultFor(toolUse, r.val))]
                   /\ UNCHANGED <<pc, httpResponse>>
              ELSE /\ pc' = [pc EXCEPT ![q] = "Failed"]
                   /\ httpResponse' = [httpResponse EXCEPT ![q] = chatFailed(r.error)]
                   /\ UNCHANGED toolResults
    /\ UNCHANGED <<env, searchVars, body, messages, response, iterations,
                   toolUseBlocks, inflight, engineCalls, lastRequest>>

pushRound_ontoHistory(b, msgs, turns) ==
    [body |-> IF b.conversationHistory.t = "array"
              THEN [b EXCEPT !.conversationHistory = Arr(@.a \o turns)]
              ELSE b,
     messages |-> msgs \o turns]

\* messages.push(assistant turn); messages.push(results turn). messages is
\* the array made by `const messages = []` and filled from
\* conversationHistory.slice(-10), so the request body is not touched.
pushRound(b, msgs, turns) == [body |-> b, messages |-> msgs \o turns]

\* The round's two turns are pushed and the engine is called again.
Resubmit(q) ==
    /\ pc[q] = "AwaitingToolResults"
    /\ roundComplete(toolResults[q], toolUseBlocks[q])
    /\ LET pushed == pushRound(body[q], messages[q],
                        <<[role |-> "assistant", content |-> Blocks(response[q].content)],
                          [role |-> "user", content |-> Blocks(toolResults[q])]>>)
           msgs == pushed.messages
       IN  /\ messages' = [messages EXCEPT ![q] = msgs]
           /\ body' = [body EXCEPT ![q] = pushed.body]
           /\ lastRequest' = [lastRequest EXCEPT ![q] =
                    engineRequest(lastRequest[q].system, msgs)]
    /\ engineCalls' = [engineCalls EXCEPT ![q] = @ + 1]
    /\ inflight' = [inflight EXCEPT ![q] = @ \cup {engineCalls[q] + 1}]
    /\ pc' = [pc EXCEPT ![q] = "AwaitingModel"]
    /\ UNCHANGED <<kb, env, searchVars, response, iterations, toolUseBlocks,
                   toolResults, dispatched, httpResponse>>

(***************************************************************************)
(* Callers and the reasoning engine                                        *)
(***************************************************************************)
MaxHistory == 12

\* A caller history of MaxHistory turns, longer than the window the loop keeps.
LongHistory ==
    [i \in 1..MaxHistory |->
        [role |-> IF i % 2 = 1 THEN "user" ELSE "assistant",
         content |-> Str([j \in 1..i |-> "x"])]]

MalformedBody == [t |-> "malformed"]

RequestBodies ==
    { [t |-> "object", message |-> Str(wTax \o sp \o wNcb),
       conversationHistory |-> Undefined, language |-> Undefined],
      [t |-> "object", message |-> Str(<<"i", "s", " ", "a">>),
       conversationHistory |-> Arr(LongHistory), language |-> Str(<<"h", "i">>)],
      [t |-> "object", message |-> Undefined,
       conversationHistory |-> Undefined, language |-> Undefined],
      [t |-> "object", message |-> Str(<<>>),
       conversationHistory |-> Arr(LongHistory), language |-> Undefined],
      [t |-> "object", message |-> Num(5),
       conversationHistory |-> Undefined, language |-> Undefined],
      MalformedBody }

respSearchAndCalc ==
    [stop_reason |-> "tool_use",
     content |-> << TextBlock("Let me check."),
                    ToolUse("toolu_1", "search_insurance_knowledge",
                            [query |-> Str(wNcb)]),
                    ToolUse("toolu_2", "calculate_health_coverage",
                            [city_tier |-> Str(cityMetro),
                             family_members |-> Arr(<<Num(35), Num(32), Num(5)>>),
                             has_preexisting |-> Bool(FALSE),
                             corporate_cover |-> Num(0)]),
                    ToolUse("toolu_3", "search_insurance_knowledge",
                            [query |-> Str(wGold)]) >>]

respUnknownAndBooking ==
    [stop_reason |-> "tool_use",
     content |-> << ToolUse("toolu_1", "lookup_premium", [query |-> Str(wTax)]),
                    ToolUse("toolu_2", "book_consultation", [reason |-> Str(wTax)]),
                    ToolUse("toolu_3", "compare_policies",
                            [policy_identifiers |->
                                Arr(<<Str(<<"p", "1">>), Str(<<"O", "P", "T">>)>>)]),
                    ToolUse("toolu_4", "get_claims_guidance",
                            [query |-> Str(wGold), insurance_type |-> Str(catHealth)]),
                    ToolUse("toolu_5", "search_policies", [query |-> Str(wGold)]) >>]

respClaimsAndPolicies ==
    [stop_reason |-> "tool_use",
     content |-> << ToolUse("toolu_1", "get_claims_guidance", [query |-> Str(wCash)]),
                    TextBlock("NCB is a renewal discount."),
                    ToolUse("toolu_2", "search_policies",
                            [query |-> Str(wOpd),
                             insurer_name |-> Str(<<"S", "T", "A", "R">>)]),
                    ToolUse("toolu_3", "get_insurer_details",
                            [insurer_name |-> Str(wLic)]),
                    ToolUse("toolu_4", "calculate_term_coverage",
                            [annual_income |-> Num(1200000),
                             total_debts |-> Num(500000),
                             num_children |-> Num(2),
                             current_age |-> Num(35)]) >>]

respPoliciesNoQuery ==
    [stop_reason |-> "tool_use",
     content |-> << ToolUse("toolu_1", "search_policies",
                            [category |-> Str(catHealth)]) >>]

respCompareNoIdentifiers ==
    [stop_reason |-> "tool_use",
     content |-> << ToolUse("toolu_1", "search_insurance_knowledge",
                            [query |-> Str(wTax)]),
                    ToolUse("toolu_2", "compare_policies", [note |-> Str(wTax)]) >>]

respInsurerNoName ==
    [stop_reason |-> "tool_use",
     content |-> << ToolUse("toolu_1", "get_insurer_details",
                            [insurer |-> Str(wStar)]) >>]

respHealthAgesNotAList ==
    [stop_reason |-> "tool_use",
     content |-> << ToolUse("toolu_1", "calculate_health_coverage",
                            [city_tier |-> Str(cityTier1),
                             family_members |-> Num(35)]) >>]

respTwoTexts ==
    [stop_reason |-> "end_turn",
     content |-> << TextBlock("NCB is a renewal discount."),
                    TextBlock("Let me check.") >>]

respEmpty == [stop_reason |-> "end_turn", content |-> <<>>]

respBookingText ==
    [stop_reason |-> "end_turn", content |-> << TextBlock(TextWithBookingUrl) >>]

respCutOff ==
    [stop_reason |-> "max_tokens",
     content |-> << TextBlock("Let me check."),
                    ToolUse("toolu_1", "search_policies", [query |-> Str(wTax)]) >>]

\* What the engine may answer: stop_reason is "tool_use" only on a response
\* that carries at least one tool_use block.
EngineResponses ==
    { respSearchAndCalc, respUnknownAndBooking, respClaimsAndPolicies,
      respPoliciesNoQuery, respCompareNoIdentifiers, respInsurerNoName,
      respHealthAgesNotAList, respTwoTexts, respEmpty, respBookingText,
      respCutOff }

Environments ==
    [ANTHROPIC_API_KEY : {Undefined, Str(<<"s", "k">>)},
     NEXT_PUBLIC_BOOKING_URL : {Undefined, Str(<<"m", "y">>)}]

InitLoop(QS, Envs) ==
    /\ kb = DefaultKB
    /\ env \in Envs
    /\ sArgs = Null
    /\ sOut = Null
    /\ pc = [q \in QS |-> "Idle"]
    /\ body = [q \in QS |-> Null]
    /\ messages = [q \in QS |-> <<>>]
    /\ response = [q \in QS |-> Null]
    /\ iterations = [q \in QS |-> 0]
    /\ toolUseBlocks = [q \in QS |-> <<>>]
    /\ toolResults = [q \in QS |-> <<>>]
    /\ inflight = [q \in QS |-> {}]
    /\ engineCalls = [q \in QS |-> 0]
    /\ lastRequest = [q \in QS |-> Null]
    /\ dispatched = [q \in QS |-> <<>>]
    /\ httpResponse = [q \in QS |-> Null]
    /\ NoPage

\* One question, any caller and any engine behaviour.
Init == InitLoop({1}, Environments)

Next ==
    \/ Receive(1, RequestBodies)
    \/ EngineReturn(1, EngineResponses)
    \/ EngineFail(1)
    \/ ExecuteNextTool(1)
    \/ Resubmit(1)

Spec == Init /\ [][Next]_vars

\* Several questions in flight at once, each handled by its own invocation
\* of POST.
NumQuestions == 2

ConcurrentBodies ==
    { [t |-> "object", message |-> Str(wTax \o sp \o wNcb),
       conversationHistory |-> Undefined, language |-> Undefined] }

ConcurrentResponses ==
    { [stop_reason |-> "tool_use",
       content |-> << TextBlock("Let me check."),
                      ToolUse("toolu_1", "search_policies", [query |-> Str(wOpd)]) >>],
      respTwoTexts }

InitConcurrent ==
    InitLoop(1..NumQuestions,
             {[ANTHROPIC_API_KEY |-> Str(<<"s", "k">>),
               NEXT_PUBLIC_BOOKING_URL |-> Undefined]})

NextConcurrent ==
    \E q \in 1..NumQuestions :
        \/ Receive(q, ConcurrentBodies)
        \/ EngineReturn(q, ConcurrentResponses)
        \/ EngineFail(q)
        \/ ExecuteNextTool(q)
        \/ Resubmit(q)

SpecConcurrent == InitConcurrent /\ [][NextConcurrent]_vars

(***************************************************************************)
(* Search calls on arbitrary arguments                                     *)
(***************************************************************************)
MaxResults == 3

Queries ==
    { Str(wTax \o sp \o wNcb),
      Str(wNcb),
      Str(<<"T", "a", "x">> \o <<",", " ">> \o wOpd \o <<"!">>),
      Str(wCash \o sp \o sp \o wTax),
      Str(<<"i", "s", " ", "a">>),
      Str(<<"t", "a", "x", "e", "s">>),
      Str(wTax \o sp \o wTax),
      Str(wCash),
      Undefined }

Categories == {Undefined, Str(catHealth), Str(catTerm)}

InsurerNames == {Undefined, Str(<<"S", "T", "A">>), Str(wLic)}

SearchArgs ==
    [query : Queries, category : Categories, insurerName : InsurerNames,
     maxResults : {Num(n) : n \in 0..MaxResults} \cup {Undefined}]

CallSearchArticles ==
    /\ sOut = Null
    /\ sOut' = [fn |-> "searchArticles",
                ret |-> searchArticles(kb, sArgs.query, sArgs.category,
                                       sArgs.maxResults)]
    /\ UNCHANGED <<kb, env, sArgs, loopVars>>

CallSearchPolicies ==
    /\ sOut = Null
    /\ sOut' = [fn |-> "searchPolicies",
                ret |-> searchPolicies(kb, sArgs.query, sArgs.category,
                                       sArgs.insurerName, sArgs.maxResults)]
    /\ UNCHANGED <<kb, env, sArgs, loopVars>>

CallSearchClaimsGuides ==
    /\ sOut = Null
    /\ sOut' = [fn |-> "searchClaimsGuides",
                ret |-> searchClaimsGuides(kb, sArgs.query, sArgs.category)]
    /\ UNCHANGED <<kb, env, sArgs, loopVars>>

CallBuildContext ==
    /\ sOut = Null
    /\ sOut' = [fn |-> "buildContext", ret |-> buildContext(kb, sArgs.query)]
    /\ UNCHANGED <<kb, env, sArgs, loopVars>>

NoQuestions == <<>>

InitSearch ==
    /\ kb \in Corpora
    /\ env = [ANTHROPIC_API_KEY |-> Undefined, NEXT_PUBLIC_BOOKING_URL |-> Undefined]
    /\ sArgs \in SearchArgs
    /\ sOut = Null
    /\ pc = NoQuestions /\ body = NoQuestions /\ messages = NoQuestions
    /\ response = NoQuestions /\ iterations = NoQuestions
    /\ toolUseBlocks = NoQuestions /\ toolResults = NoQuestions
    /\ inflight = NoQuestions /\ engineCalls = NoQuestions
    /\ lastRequest = NoQuestions /\ dispatched = NoQuestions
    /\ httpResponse = NoQuestions
    /\ NoPage

NextSearch ==
    \/ CallSearchArticles
    \/ CallSearchPolicies
    \/ CallSearchClaimsGuides
    \/ CallBuildContext

SpecSearch == InitSearch /\ [][NextSearch]_vars

(***************************************************************************)
(* Tokenizer harness: one call of tokenize on a bounded input              *)
(***************************************************************************)
MaxTextLen == 7

\* A lower-case letter, an upper-case letter, a digit, a blank and a
\* punctuation mark.
TextAlphabet == {"a", "B", "1", " ", "-"}

TokenizeInputs == UNION {[1..n -> TextAlphabet] : n \in 0..MaxTextLen}

CallTokenize ==
    /\ sOut = Null
    /\ sOut' = [fn |-> "tokenize", ret |-> tokenize(sArgs.text)]
    /\ UNCHANGED <<kb, env, sArgs, loopVars>>

InitTokenize ==
    /\ kb = DefaultKB
    /\ env = [ANTHROPIC_API_KEY |-> Undefined, NEXT_PUBLIC_BOOKING_URL |-> Undefined]
    /\ sArgs \in [text : TokenizeInputs]
    /\ sOut = Null
    /\ pc = NoQuestions /\ body = NoQuestions /\ messages = NoQuestions
    /\ response = NoQuestions /\ iterations = NoQuestions
    /\ toolUseBlocks = NoQuestions /\ toolResults = NoQuestions
    /\ inflight = NoQuestions /\ engineCalls = NoQuestions
    /\ lastRequest = NoQuestions /\ dispatched = NoQuestions
    /\ httpResponse = NoQuestions
    /\ NoPage

NextTokenize == CallTokenize

SpecTokenize == InitTokenize /\ [][NextTokenize]_vars

(***************************************************************************)
(* Round harness: toolUseBlocks.map(executeTool) over the invocations of   *)
(* one response, listed in any order                                       *)
(***************************************************************************)
respTwoPolicySearches ==
    [stop_reason |-> "tool_use",
     content |-> << ToolUse("toolu_1", "search_policies", [query |-> Str(wNcb)]),
                    ToolUse("toolu_2", "search_policies", [query |-> Str(wTax)]) >>]

\* Calculator invocations that leave parameters out, and one that supplies
\* an education goal of 0.
respCalcDefaults ==
    [stop_reason |-> "tool_use",
     content |-> << ToolUse("toolu_1", "calculate_term_coverage",
                            [annual_income |-> Num(1200000),
                             num_children |-> Num(2),
                             education_goal_per_child |-> Num(0),
                             current_age |-> Num(35)]),
                    ToolUse("toolu_2", "calculate_health_coverage",
                            [monthly_income |-> Num(90000)]),
                    ToolUse("toolu_3", "calculate_term_coverage",
                            [annual_income |-> Num(600000)]) >>]

RoundResponses ==
    { respSearchAndCalc, respUnknownAndBooking, respClaimsAndPolicies,
      respCompareNoIdentifiers, respTwoPolicySearches, respCalcDefaults }

OrdersOf(n) ==
    {p \in [1..n -> 1..n] : \A i, j \in 1..n : p[i] = p[j] => i = j}

\* The invocations of a response, and an order in which to list them.
RoundArgs ==
    UNION {{[blocks |-> SelectSeq(r.content, IsToolUse), order |-> p] :
                p \in OrdersOf(Len(SelectSeq(r.content, IsToolUse)))} :
           r \in RoundResponses}

\* One step of the map: the next invocation of the list is executed.
DispatchNext ==
    /\ sOut # Null
    /\ ~sOut.failed
    /\ Len(sOut.results) < Len(sArgs.blocks)
    /\ LET toolUse == sArgs.blocks[sArgs.order[Len(sOut.results) + 1]]
           r == executeTool(kb, env, toolUse.name, toolUse.input)
       IN  /\ kb' = corpusAfter(kb, toolUse.name, toolUse.input)
           /\ sOut' = IF r.ok
                      THEN [sOut EXCEPT !.results = Append(@, toolResultFor(toolUse, r.val))]
                      ELSE [sOut EXCEPT !.failed = TRUE]
    /\ UNCHANGED <<env, sArgs, loopVars>>

InitRound ==
    /\ kb = DefaultKB
    /\ env \in Environments
    /\ sArgs \in RoundArgs
    /\ sOut = [results |-> <<>>, failed |-> FALSE]
    /\ pc = NoQuestions /\ body = NoQuestions /\ messages = NoQuestions
    /\ response = NoQuestions /\ iterations = NoQuestions
    /\ toolUseBlocks = NoQuestions /\ toolResults = NoQuestions
    /\ inflight = NoQuestions /\ engineCalls = NoQuestions
    /\ lastRequest = NoQuestions /\ dispatched = NoQuestions
    /\ httpResponse = NoQuestions
    /\ NoPage

NextRound == DispatchNext

SpecRound == InitRound /\ [][NextRound]_vars

(***************************************************************************)
(* Health calculator harness: one invocation of calculate_health_coverage  *)
(***************************************************************************)
MaxFamily == 3

\* Ages on both sides of every age-group limit, and those of the catalog's
\* example.
Ages == {5, 32, 35, 50, 65, 70}

AgeLists == UNION {[1..n -> {Num(a) : a \in Ages}] : n \in 1..MaxFamily}

\* Corporate cover in lakhs: none, below, at and above the recommendation.
CorporateCovers == {0, 5, 25, 200}

HealthInputs ==
    [city_tier : {Str(cityMetro), Str(cityTier1), Str(cityTier2)},
     family_members : {Arr(l) : l \in AgeLists},
     has_preexisting : {Bool(FALSE), Bool(TRUE)},
     corporate_cover : {Num(c) : c \in CorporateCovers}]

CallHealthCoverage ==
    /\ sOut = Null
    /\ sOut' = [fn |-> "calculate_health_coverage",
                ret |-> executeTool(kb, env, "calculate_health_coverage", sArgs)]
    /\ UNCHANGED <<kb, env, sArgs, loopVars>>

InitHealth ==
    /\ kb = DefaultKB
    /\ env = [ANTHROPIC_API_KEY |-> Undefined, NEXT_PUBLIC_BOOKING_URL |-> Undefined]
    /\ sArgs \in HealthInputs
    /\ sOut = Null
    /\ pc = NoQuestions /\ body = NoQuestions /\ messages = NoQuestions
    /\ response = NoQuestions /\ iterations = NoQuestions
    /\ toolUseBlocks = NoQuestions /\ toolResults = NoQuestions
    /\ inflight = NoQuestions /\ engineCalls = NoQuestions
    /\ lastRequest = NoQuestions /\ dispatched = NoQuestions
    /\ httpResponse = NoQuestions
    /\ NoPage

NextHealth == CallHealthCoverage

SpecHealth == InitHealth /\ [][NextHealth]_vars

(***************************************************************************)
(* Properties of collection search                                         *)
(***************************************************************************)
\* The collection a search call ranks, and the text it scores for a document.
CollectionOf(fn) ==
    CASE fn = "searchArticles" -> kb.articles
      [] fn = "searchPolicies" -> kb.policies
      [] fn = "searchClaimsGuides" -> kb.claimsGuides

ScoreOf(fn, d) ==
    LET tokens == tokenize(sArgs.query.s)
    IN  CASE fn = "searchArticles" -> scoreMatch(d.keywords, articleText(d), tokens)
          [] fn = "searchPolicies" -> scoreMatch(d.keywords, policyText(d), tokens)
          [] fn = "searchClaimsGuides" -> scoreMatch(d.keywords, guideText(d), tokens)

PositionIn(coll, d) == CHOOSE k \in 1..Len(coll) : coll[k] = d

SearchNames == {"searchArticles", "searchPolicies", "searchClaimsGuides"}

Returned == sOut # Null /\ sOut.fn \in SearchNames /\ sOut.ret.ok

\* C10: the documents a search returns are in non-increasing score order, and
\* two returned documents of equal score keep the order they have in the
\* collection.
C10_SortedStable ==
    Returned =>
        LET docs == sOut.ret.val
            coll == CollectionOf(sOut.fn)
        IN  \A i, j \in 1..Len(docs) :
                i < j =>
                    /\ ScoreOf(sOut.fn, docs[i]) >= ScoreOf(sOut.fn, docs[j])
                    /\ ScoreOf(sOut.fn, docs[i]) = ScoreOf(sOut.fn, docs[j])
                         => PositionIn(coll, docs[i]) < PositionIn(coll, docs[j])

\* A result holding a tie, and a higher-scored document that the collection
\* lists after a lower-scored one.
C10_Witness ==
    /\ Returned
    /\ LET docs == sOut.ret.val
           coll == CollectionOf(sOut.fn)
       IN  /\ \E i, j \in 1..Len(docs) :
                 /\ i < j
                 /\ ScoreOf(sOut.fn, docs[i]) = ScoreOf(sOut.fn, docs[j])
           /\ \E i, j \in 1..Len(docs) :
                 /\ i < j
                 /\ ScoreOf(sOut.fn, docs[i]) > ScoreOf(sOut.fn, docs[j])
                 /\ PositionIn(coll, docs[i]) > PositionIn(coll, docs[j])

(***************************************************************************)
(* Properties of the orchestration loop                                    *)
(***************************************************************************)
Qs == DOMAIN pc

\* The texts of the text blocks of a response, in response order.
TextsIn(content) ==
    LET textBlocks == SelectSeq(content, IsText)
    IN  [i \in 1..Len(textBlocks) |-> textBlocks[i].text]

\* msg is the given texts in order with a newline between neighbours.
IsJoinOf(msg, texts) ==
    IF texts = <<>> THEN msg = <<>>
    ELSE /\ Len(msg) = 2 * Len(texts) - 1
         /\ \A i \in 1..Len(texts) : msg[2 * i - 1] = texts[i]
         /\ \A i \in 1..(Len(texts) - 1) : msg[2 * i] = "\n"

OnlyText(content) == \A i \in 1..Len(content) : IsText(content[i])

IsRoundTurn(turn) == turn.content.t = "blocks"

\* The blocks of every engine response of the question so far, in order:
\* those of the rounds already pushed, then those of the last response.
BlocksOfQuestion(q) ==
    LET rounds == SelectSeq(messages[q],
                            LAMBDA m : m.role = "assistant" /\ IsRoundTurn(m))
    IN  flatten([i \in 1..Len(rounds) |-> rounds[i].content.blocks])
        \o (IF response[q] = Null THEN <<>> ELSE response[q].content)

RoundsDispatched(q) == {dispatched[q][i].round : i \in 1..Len(dispatched[q])}

\* C1: a question sees at most 5 dispatch rounds and at most 6 engine calls,
\* whatever the engine answers.
C1_AtMostFiveRounds ==
    \A q \in Qs :
        /\ iterations[q] <= 5
        /\ Cardinality(RoundsDispatched(q)) <= 5
        /\ engineCalls[q] <= 6

\* The engine asked for capabilities on every one of its six responses.
C1_Witness ==
    \E q \in Qs :
        /\ pc[q] = "Done"
        /\ engineCalls[q] = 6
        /\ Cardinality(RoundsDispatched(q)) = 5
        /\ response[q].stop_reason = "tool_use"

\* The loop ended because the cap was hit: the last response still asks for
\* capabilities.
CapHit(q) == pc[q] = "Done" /\ response[q].stop_reason = "tool_use"

\* C2 as stated: at the cap the loop ends with a normal answer made of the
\* text produced during the whole question, and the last response's
\* invocations are not dispatched.
C2_CapReturnsAllTextOfQuestion ==
    \A q \in Qs :
        CapHit(q) =>
            /\ httpResponse[q].status = 200
            /\ IsJoinOf(httpResponse[q].message, TextsIn(BlocksOfQuestion(q)))
            /\ \A i \in 1..Len(dispatched[q]) : dispatched[q][i].round <= 5

\* C2 amended: a sixth response that still asks for capabilities ends the loop
\* in Done with a normal answer made of the text segments of that last
\* response only (possibly none); its invocations are not dispatched.
C2_CapReturnsLastResponseText ==
    /\ [](\A q \in Qs :
            CapHit(q) =>
                /\ iterations[q] = 5 /\ engineCalls[q] = 6 /\ inflight[q] = {}
                /\ httpResponse[q].status = 200
                /\ IsJoinOf(httpResponse[q].message, TextsIn(response[q].content))
                /\ \A i \in 1..Len(dispatched[q]) : dispatched[q][i].round <= 5)
    /\ [][\A q \in Qs :
            (/\ pc[q] = "AwaitingModel" /\ engineCalls[q] = 6
             /\ pc'[q] # "AwaitingModel" /\ pc'[q] # "Failed")
            => /\ pc'[q] = "Done"
               /\ dispatched'[q] = dispatched[q]
               /\ engineCalls'[q] = 6]_vars

\* The cap is hit on a response without text after a round that had text.
C2_Witness ==
    \E q \in Qs :
        /\ CapHit(q)
        /\ TextsIn(response[q].content) = <<>>
        /\ TextsIn(BlocksOfQuestion(q)) # <<>>
        /\ httpResponse[q].message = <<>>

\* C3: a response of text blocks only sends the loop from AwaitingModel to
\* Done with no capability dispatched and no further engine call, and the
\* answer is the response's text segments in their order.
C3_TextOnlyFinishes ==
    [][\A q \in Qs :
        /\ (/\ pc[q] = "AwaitingModel" /\ pc'[q] # "AwaitingModel"
            /\ pc'[q] # "Failed" /\ OnlyText(response'[q].content))
           => /\ pc'[q] = "Done"
              /\ httpResponse'[q].status = 200
              /\ IsJoinOf(httpResponse'[q].message, TextsIn(response'[q].content))
              /\ Len(httpResponse'[q].toolsUsed) = 0
              /\ dispatched'[q] = dispatched[q]
              /\ engineCalls'[q] = engineCalls[q]
              /\ inflight'[q] = {}
        /\ pc[q] = "Done"
           => /\ pc'[q] = "Done"
              /\ dispatched'[q] = dispatched[q]
              /\ engineCalls'[q] = engineCalls[q]
              /\ httpResponse'[q] = httpResponse[q]]_vars

\* A text-only response of two segments ended a question after a round.
C3_Witness ==
    \E q \in Qs :
        /\ pc[q] = "Done"
        /\ iterations[q] >= 1
        /\ response[q].content # <<>>
        /\ OnlyText(response[q].content)
        /\ Len(httpResponse[q].message) = 3
        /\ httpResponse[q].message[1] # httpResponse[q].message[3]

\* results answer the invocations uses one for one, up to Len(results).
AnswersInOrder(results, uses) ==
    /\ Len(results) <= Len(uses)
    /\ \A i \in 1..Len(results) :
          LET r == executeTool(kb, env, uses[i].name, uses[i].input)
          IN  /\ results[i].tool_use_id = uses[i].id
              /\ r.ok
              /\ results[i].content = r.val

\* C4: the results of a round answer the invocations of the engine's
\* response one for one: same count, each with the call identifier of its
\* invocation and the text executeTool returns for its name and parameters.
C4_OneResultPerInvocation ==
    \A q \in Qs :
        /\ pc[q] = "AwaitingToolResults"
           => /\ toolUseBlocks[q] = SelectSeq(response[q].content, IsToolUse)
              /\ AnswersInOrder(toolResults[q], toolUseBlocks[q])
        /\ \A k \in 1..Len(messages[q]) :
              (messages[q][k].role = "user" /\ IsRoundTurn(messages[q][k]))
              => /\ k > 1
                 /\ messages[q][k - 1].role = "assistant"
                 /\ IsRoundTurn(messages[q][k - 1])
                 /\ LET uses == SelectSeq(messages[q][k - 1].content.blocks, IsToolUse)
                        results == messages[q][k].content.blocks
                    IN  /\ Len(results) = Len(uses)
                        /\ AnswersInOrder(results, uses)

\* A round of four invocations, one text block among the response's blocks,
\* has been answered.
C4_Witness ==
    \E q \in Qs : \E k \in 2..Len(messages[q]) :
        /\ messages[q][k].role = "user" /\ IsRoundTurn(messages[q][k])
        /\ Len(messages[q][k].content.blocks) = 4
        /\ Len(messages[q][k - 1].content.blocks) = 5
        /\ messages[q][k].content.blocks[1].tool_use_id
             # messages[q][k].content.blocks[2].tool_use_id

\* Every results turn of a turn list answers all invocations of the turn
\* before it.
NoPartialRound(msgs) ==
    \A k \in 1..Len(msgs) :
        (msgs[k].role = "user" /\ IsRoundTurn(msgs[k]))
        => /\ k > 1
           /\ IsRoundTurn(msgs[k - 1])
           /\ Len(msgs[k].content.blocks)
                = Len(SelectSeq(msgs[k - 1].content.blocks, IsToolUse))

\* C5: going from AwaitingToolResults back to AwaitingModel appends exactly
\* two turns, the engine's assistant turn with its raw blocks and then one
\* user turn with all results of the round, and no engine request ever
\* carries a round with results missing.
C5_ResubmitAppendsFullRound ==
    /\ [](\A q \in Qs : lastRequest[q] # Null => NoPartialRound(lastRequest[q].messages))
    /\ [][\A q \in Qs :
            (pc[q] = "AwaitingToolResults" /\ pc'[q] = "AwaitingModel")
            => LET n == Len(messages[q])
               IN  /\ Len(messages'[q]) = n + 2
                   /\ SubSeq(messages'[q], 1, n) = messages[q]
                   /\ messages'[q][n + 1] =
                        [role |-> "assistant", content |-> Blocks(response[q].content)]
                   /\ messages'[q][n + 2].role = "user"
                   /\ messages'[q][n + 2].content = Blocks(toolResults[q])
                   /\ Len(toolResults[q])
                        = Len(SelectSeq(response[q].content, IsToolUse))
                   /\ lastRequest'[q].messages = messages'[q]]_vars

\* Two rounds have been resubmitted, the second with four results.
C5_Witness ==
    \E q \in Qs :
        /\ pc[q] = "AwaitingModel"
        /\ iterations[q] = 2
        /\ Len(messages[q][Len(messages[q])].content.blocks) = 4

IsUnknownToolText(text, name) == text = [kind |-> "unknown_tool", name |-> name]

\* C6: an invocation of a name outside the catalog is answered by the
\* unknown-capability text naming it; executing it never fails the question,
\* and the text goes back to the engine as that invocation's result.
C6_UnknownCapabilityIsAResult ==
    /\ [](\A q \in Qs : \A k \in 2..Len(messages[q]) :
            (messages[q][k].role = "user" /\ IsRoundTurn(messages[q][k]))
            => LET uses == SelectSeq(messages[q][k - 1].content.blocks, IsToolUse)
                   results == messages[q][k].content.blocks
               IN  \A i \in 1..Len(uses) :
                      uses[i].name \notin ToolNames
                      => /\ i <= Len(results)
                         /\ results[i].tool_use_id = uses[i].id
                         /\ IsUnknownToolText(results[i].content, uses[i].name))
    /\ [][\A q \in Qs :
            (/\ pc[q] = "AwaitingToolResults"
             /\ Len(dispatched'[q]) = Len(dispatched[q]) + 1
             /\ dispatched'[q][Len(dispatched'[q])].name \notin ToolNames)
            => /\ pc'[q] = "AwaitingToolResults"
               /\ httpResponse'[q] = Null
               /\ Len(toolResults'[q]) = Len(toolResults[q]) + 1
               /\ IsUnknownToolText(toolResults'[q][Len(toolResults'[q])].content,
                                    dispatched'[q][Len(dispatched'[q])].name)]_vars

\* The engine has been called again with the unknown-capability text among
\* the results of the round.
C6_Witness ==
    \E q \in Qs :
        /\ pc[q] = "AwaitingModel"
        /\ iterations[q] >= 1
        /\ \E i \in 1..Len(messages[q][Len(messages[q])].content.blocks) :
              messages[q][Len(messages[q])].content.blocks[i].content.kind
                = "unknown_tool"

\* C7: every invocation of a catalog capability yields a result text,
\* whatever its parameters, and no capability makes a question fail.
C7_CapabilitiesAlwaysAnswer ==
    \A q \in Qs :
        /\ \A i \in 1..Len(dispatched[q]) :
              dispatched[q][i].name \in ToolNames
              => executeTool(kb, env, dispatched[q][i].name, dispatched[q][i].input).ok
        /\ (pc[q] = "Failed" /\ dispatched[q] # <<>>)
           => httpResponse[q].details = "APIError"

\* The state a question owns.
QuestionState(q) ==
    <<pc[q], body[q], messages[q], response[q], iterations[q], toolUseBlocks[q],
      toolResults[q], inflight[q], engineCalls[q], lastRequest[q], dispatched[q],
      httpResponse[q]>>

\* C8: a failed engine call, the first or a later one, ends its question with
\* HTTP 500 'Chat failed'; the question makes no further engine call or
\* dispatch, and the corpus and the other questions are left as they were.
C8_EngineFailureEndsOnlyItsQuestion ==
    [][\A q \in Qs :
        /\ (pc[q] = "AwaitingModel" /\ pc'[q] = "Failed")
           => /\ httpResponse'[q].status = 500
              /\ httpResponse'[q].error = "Chat failed"
              /\ engineCalls'[q] = engineCalls[q]
              /\ dispatched'[q] = dispatched[q]
              /\ inflight'[q] = {}
              /\ kb' = kb
              /\ \A p \in Qs \ {q} :
                    UNCHANGED QuestionState(p)
        /\ pc[q] = "Failed"
           => /\ pc'[q] = "Failed"
              /\ engineCalls'[q] = engineCalls[q]
              /\ dispatched'[q] = dispatched[q]
              /\ inflight'[q] = {}
              /\ httpResponse'[q] = httpResponse[q]]_vars

\* One question failed on a resubmission while another, started alongside
\* it, went on through a round of its own and was answered.
C8_Witness ==
    \E q, p \in Qs :
        /\ q # p
        /\ pc[q] = "Failed" /\ iterations[q] >= 1
        /\ httpResponse[q].details = "APIError"
        /\ pc[p] = "Done" /\ iterations[p] >= 1
        /\ httpResponse[p].status = 200

\* C9: a question has at most one engine call outstanding; a call is issued
\* only when the previous one has settled and, after the first, when every
\* invocation of the round has its result.
C9_OneEngineCallAtATime ==
    /\ [](\A q \in Qs :
            /\ Cardinality(inflight[q]) <= 1
            /\ inflight[q] # {} => pc[q] = "AwaitingModel" /\ inflight[q] = {engineCalls[q]})
    /\ [][\A q \in Qs :
            engineCalls'[q] # engineCalls[q]
            => /\ engineCalls'[q] = engineCalls[q] + 1
               /\ inflight[q] = {}
               /\ inflight'[q] = {engineCalls'[q]}
               /\ engineCalls[q] >= 1
                  => /\ pc[q] = "AwaitingToolResults"
                     /\ Len(toolResults[q])
                          = Len(SelectSeq(response[q].content, IsToolUse))]_vars

\* The third engine call of a question is outstanding.
C9_Witness ==
    \E q \in Qs : inflight[q] = {3} /\ engineCalls[q] = 3

(***************************************************************************)
(* Properties of the scorer and of the result of a search                  *)
(***************************************************************************)
\* The text of a document that its search hands to the scorer.
ScoredText(fn, d) ==
    CASE fn = "searchArticles" -> articleText(d)
      [] fn = "searchPolicies" -> policyText(d)
      [] fn = "searchClaimsGuides" -> guideText(d)

\* Some token is a substring of a keyword of d or of d's lower-cased text.
TokenAppears(fn, d, tokens) ==
    \E i \in 1..Len(tokens) :
        \/ \E k \in 1..Len(d.keywords) : includes(d.keywords[k], tokens[i])
        \/ includes(toLowerCase(ScoredText(fn, d)), tokens[i])

\* Some keyword of d is a substring of a token.
KeywordInsideToken(d, tokens) ==
    \E i \in 1..Len(tokens) :
        \E k \in 1..Len(d.keywords) : includes(tokens[i], d.keywords[k])

InResult(d) == \E i \in 1..Len(sOut.ret.val) : sOut.ret.val[i] = d

\* C11 as stated: a document of the collection such that no query token is a
\* substring of any of its keywords or of its text has score 0 and is not in
\* the result; and no returned document has score 0.
C11_NoTokenAppearsScoresZero ==
    Returned =>
        LET coll == CollectionOf(sOut.fn)
            tokens == tokenize(sArgs.query.s)
        IN  /\ \A k \in 1..Len(coll) :
                  ~TokenAppears(sOut.fn, coll[k], tokens)
                      => /\ ScoreOf(sOut.fn, coll[k]) = 0
                         /\ ~InResult(coll[k])
            /\ \A k \in 1..Len(coll) :
                  InResult(coll[k]) => ScoreOf(sOut.fn, coll[k]) # 0

\* C11 amended: a document of the collection such that no query token is a
\* substring of any of its keywords or of its text, and none of its keywords
\* is a substring of a query token, has score 0 and is not in the result; and
\* no returned document has score 0.
C11_NoMatchEitherWayScoresZero ==
    Returned =>
        LET coll == CollectionOf(sOut.fn)
            tokens == tokenize(sArgs.query.s)
        IN  /\ \A k \in 1..Len(coll) :
                  (/\ ~TokenAppears(sOut.fn, coll[k], tokens)
                   /\ ~KeywordInsideToken(coll[k], tokens))
                      => /\ ScoreOf(sOut.fn, coll[k]) = 0
                         /\ ~InResult(coll[k])
            /\ \A k \in 1..Len(coll) :
                  InResult(coll[k]) => ScoreOf(sOut.fn, coll[k]) # 0

\* A search with tokens that returned something and left out an unfiltered
\* document that matches no token in either direction.
C11_Witness ==
    /\ Returned
    /\ sOut.ret.val # <<>>
    /\ ~Truthy(sArgs.category)
    /\ sOut.fn = "searchArticles"
    /\ sArgs.maxResults = Undefined
    /\ LET coll == CollectionOf(sOut.fn)
           tokens == tokenize(sArgs.query.s)
       IN  \E k \in 1..Len(coll) :
               /\ ~TokenAppears(sOut.fn, coll[k], tokens)
               /\ ~KeywordInsideToken(coll[k], tokens)
               /\ ~InResult(coll[k])


\* d passes the filters the call supplied: a category that is given must
\* equal the document's, an insurer name that is given (policies only) must
\* be, lower-cased, a substring of the lower-cased insurer name or id.
PassesFilters(fn, d) ==
    /\ Truthy(sArgs.category) => Str(d.category) = sArgs.category
    /\ (fn = "searchPolicies" /\ Truthy(sArgs.insurerName))
          => \/ includes(toLowerCase(d.insurerName), toLowerCase(sArgs.insurerName.s))
             \/ includes(toLowerCase(d.insurerId), toLowerCase(sArgs.insurerName.s))

\* The positions in the collection of the documents that pass the filters
\* and score above zero.
Candidates(fn) ==
    {k \in 1..Len(CollectionOf(fn)) :
        /\ PassesFilters(fn, CollectionOf(fn)[k])
        /\ ScoreOf(fn, CollectionOf(fn)[k]) > 0}

\* The candidates that the score-sorted list puts before the candidate at k:
\* those of higher score, and those of equal score listed earlier.
Before(fn, k) ==
    {j \in Candidates(fn) :
        \/ ScoreOf(fn, CollectionOf(fn)[j]) > ScoreOf(fn, CollectionOf(fn)[k])
        \/ /\ ScoreOf(fn, CollectionOf(fn)[j]) = ScoreOf(fn, CollectionOf(fn)[k])
           /\ j < k}

\* The limit of the call: 3 for claims guides, else maxResults, which
\* defaults to 3 for articles and 5 for policies.
LimitOf(fn) ==
    CASE fn = "searchClaimsGuides" -> 3
      [] fn = "searchArticles" ->
            IF sArgs.maxResults = Undefined THEN 3 ELSE sArgs.maxResults.n
      [] fn = "searchPolicies" ->
            IF sArgs.maxResults = Undefined THEN 5 ELSE sArgs.maxResults.n

\* C12: a search returns at most its limit of documents, and they are exactly
\* the first entries of the score-sorted list of the filtered, positively
\* scored documents: the i-th returned document is the candidate with i-1
\* candidates before it, and the result stops at the limit or when the
\* candidates run out.
C12_ResultIsPrefixOfRanking ==
    Returned =>
        LET docs == sOut.ret.val
            coll == CollectionOf(sOut.fn)
        IN  /\ Len(docs) <= LimitOf(sOut.fn)
            /\ Len(docs) = Min(LimitOf(sOut.fn), Cardinality(Candidates(sOut.fn)))
            /\ \A i \in 1..Len(docs) :
                  \E k \in Candidates(sOut.fn) :
                      /\ coll[k] = docs[i]
                      /\ Cardinality(Before(sOut.fn, k)) = i - 1

\* A search whose limit cut the ranking: candidates were left out, and one of
\* them is listed in the collection before a returned one.
C12_Witness ==
    /\ Returned
    /\ LET docs == sOut.ret.val
           coll == CollectionOf(sOut.fn)
       IN  /\ docs # <<>>
           /\ Len(docs) = LimitOf(sOut.fn)
           /\ \E k \in Candidates(sOut.fn) :
                 /\ ~InResult(coll[k])
                 /\ \E j \in Candidates(sOut.fn) : j > k /\ InResult(coll[j])


\* C13: every returned document is a document of the searched collection,
\* is returned once, and passes every filter the call supplied; a document
\* that passes the filters and scores above zero is left out only when the
\* result is full, so filtering comes before truncation.
C13_ReturnedAreFilteredMembers ==
    Returned =>
        LET docs == sOut.ret.val
            coll == CollectionOf(sOut.fn)
        IN  /\ \A i \in 1..Len(docs) :
                  /\ \E k \in 1..Len(coll) : coll[k] = docs[i]
                  /\ PassesFilters(sOut.fn, docs[i])
            /\ \A i, j \in 1..Len(docs) : docs[i] = docs[j] => i = j
            /\ Len(docs) < LimitOf(sOut.fn)
                  => \A k \in Candidates(sOut.fn) : InResult(coll[k])

\* A policy search with both filters that returned a policy, the insurer
\* filter differing in case from the stored name, while a policy that scores
\* above zero fails a filter.
C13_Witness ==
    /\ Returned
    /\ sOut.fn = "searchPolicies"
    /\ Truthy(sArgs.category) /\ Truthy(sArgs.insurerName)
    /\ sOut.ret.val # <<>>
    /\ \A i \in 1..Len(sOut.ret.val) :
          /\ ~includes(sOut.ret.val[i].insurerName, sArgs.insurerName.s)
          /\ sOut.ret.val[i].insurerName # toLowerCase(sArgs.insurerName.s)
    /\ \E k \in 1..Len(kb.policies) :
          /\ ~PassesFilters(sOut.fn, kb.policies[k])
          /\ ScoreOf(sOut.fn, kb.policies[k]) > 0


\* The whole text of a document: for an article the title and every chunk,
\* for a claims guide the title and the whole content.
FullText(fn, d) ==
    CASE fn = "searchArticles" -> d.title \o sp \o join(d.chunks, sp)
      [] fn = "searchPolicies" -> d.name \o sp \o d.summary
      [] fn = "searchClaimsGuides" -> d.title \o sp \o d.content

\* The points one token earns against the keywords and a text.
PointsFor(keywords, text, token) ==
    (IF \E k \in 1..Len(keywords) :
            includes(keywords[k], token) \/ includes(token, keywords[k])
     THEN 3 ELSE 0)
    + (IF includes(toLowerCase(text), token) THEN 1 ELSE 0)

\* The sum of the points of the first n tokens, repeats included.
RECURSIVE SumOfPoints(_, _, _, _)
SumOfPoints(keywords, text, tokens, n) ==
    IF n = 0 THEN 0
    ELSE SumOfPoints(keywords, text, tokens, n - 1)
         + PointsFor(keywords, text, tokens[n])

\* C14 as stated: the score of every document of the collection is the sum
\* over the query tokens, repeats counted, of 3 for a keyword match in either
\* direction plus 1 if the document's full text contains the token; it lies
\* between 0 and 4 times the number of tokens.
C14_ScoreIsSumOverFullText ==
    Returned =>
        LET coll == CollectionOf(sOut.fn)
            tokens == tokenize(sArgs.query.s)
        IN  \A k \in 1..Len(coll) :
                /\ ScoreOf(sOut.fn, coll[k])
                     = SumOfPoints(coll[k].keywords, FullText(sOut.fn, coll[k]),
                                   tokens, Len(tokens))
                /\ ScoreOf(sOut.fn, coll[k]) \in 0..(4 * Len(tokens))

\* C14 amended: the text point is earned against the scored text, which for
\* an article or a claims guide holds only the first 500 characters of the
\* body.
C14_ScoreIsSumOverScoredText ==
    Returned =>
        LET coll == CollectionOf(sOut.fn)
            tokens == tokenize(sArgs.query.s)
        IN  \A k \in 1..Len(coll) :
                /\ ScoreOf(sOut.fn, coll[k])
                     = SumOfPoints(coll[k].keywords,
                                   ScoredText(sOut.fn, coll[k]), tokens, Len(tokens))
                /\ ScoreOf(sOut.fn, coll[k]) \in 0..(4 * Len(tokens))

\* A query that repeats a token, scored against a document that earns both
\* kinds of point for it, and a document whose body is longer than the part
\* that is scored.
C14_Witness ==
    /\ Returned
    /\ sOut.fn = "searchArticles"
    /\ LET tokens == tokenize(sArgs.query.s)
       IN  /\ Len(tokens) = 2 /\ tokens[1] = tokens[2]
           /\ \E k \in 1..Len(kb.articles) :
                 /\ ScoreOf(sOut.fn, kb.articles[k]) = 8
                 /\ InResult(kb.articles[k])
           /\ \E k \in 1..Len(kb.articles) :
                 FullText(sOut.fn, kb.articles[k]) # ScoredText(sOut.fn, kb.articles[k])


(***************************************************************************)
(* Properties of the tokenizer                                             *)
(***************************************************************************)
Tokenized == sOut # Null /\ sOut.fn = "tokenize"

IsAlnum(c) == c \in LowerLetters \cup Digits

\* The maximal runs of [a-z0-9] in s, as <<first, last>> positions.
MaximalRuns(s) ==
    {r \in (1..Len(s)) \X (1..Len(s)) :
        /\ r[1] <= r[2]
        /\ \A i \in r[1]..r[2] : IsAlnum(s[i])
        /\ r[1] = 1 \/ ~IsAlnum(s[r[1] - 1])
        /\ r[2] = Len(s) \/ ~IsAlnum(s[r[2] + 1])}

LongRuns(s) == {r \in MaximalRuns(s) : r[2] - r[1] + 1 >= 3}

\* C15: tokenize returns, in input order, exactly the maximal runs of
\* [a-z0-9] of the lower-cased input that are at least 3 long; every token
\* is made of [a-z0-9] only and is longer than 2.
C15_TokensAreLongMaximalRuns ==
    Tokenized =>
        LET lower == toLowerCase(sArgs.text)
            tokens == sOut.ret
        IN  /\ Len(tokens) = Cardinality(LongRuns(lower))
            /\ \A n \in 1..Len(tokens) :
                  \E r \in LongRuns(lower) :
                      /\ tokens[n] = SubSeq(lower, r[1], r[2])
                      /\ Cardinality({q \in LongRuns(lower) : q[1] < r[1]}) = n - 1
            /\ \A n \in 1..Len(tokens) :
                  /\ Len(tokens[n]) > 2
                  /\ \A i \in 1..Len(tokens[n]) : IsAlnum(tokens[n][i])

\* An input with an upper-case letter, a digit and a punctuation mark that
\* yields two different tokens, the first of them lower-cased.
C15_Witness ==
    /\ Tokenized
    /\ Len(sOut.ret) = 2
    /\ sOut.ret[1] # sOut.ret[2]
    /\ sOut.ret[1] # SubSeq(sArgs.text, 1, Len(sOut.ret[1]))
    /\ \E i \in 1..Len(sOut.ret[2]) : sOut.ret[2][i] \in Digits
    /\ \E i \in 1..Len(sArgs.text) : sArgs.text[i] = "-"


(***************************************************************************)
(* Properties of the context block                                         *)
(***************************************************************************)
Assembled == sOut # Null /\ sOut.fn = "buildContext" /\ sOut.ret.ok

SectionRank(section) ==
    CASE section = "articles" -> 1
      [] section = "policies" -> 2
      [] section = "claims" -> 3

SearchOfSection(section) ==
    CASE section = "articles" -> "searchArticles"
      [] section = "policies" -> "searchPolicies"
      [] section = "claims" -> "searchClaimsGuides"

ExcerptCap(section) ==
    CASE section = "articles" -> 2
      [] section = "policies" -> 3
      [] section = "claims" -> 3

\* The positions in a collection of the documents the query scores above
\* zero, no filter applied.
Hits(fn) ==
    {k \in 1..Len(CollectionOf(fn)) : ScoreOf(fn, CollectionOf(fn)[k]) > 0}

\* The place of the hit at k in the ranking of its collection.
RankOf(fn, k) ==
    1 + Cardinality({j \in Hits(fn) :
            \/ ScoreOf(fn, CollectionOf(fn)[j]) > ScoreOf(fn, CollectionOf(fn)[k])
            \/ /\ ScoreOf(fn, CollectionOf(fn)[j]) = ScoreOf(fn, CollectionOf(fn)[k])
               /\ j < k})

\* C16: the parts of a context block are ordered articles, policies, claims;
\* a section has a header, and only one, exactly when its collection has a
\* hit for the query; every excerpt comes after the header of its own
\* section and every header is followed by an excerpt of its section.
C16_SectionsInFixedOrder ==
    Assembled =>
        LET parts == sOut.ret.val
        IN  /\ \A i, j \in 1..Len(parts) :
                  i < j => SectionRank(parts[i].section) <= SectionRank(parts[j].section)
            /\ \A s \in {"articles", "policies", "claims"} :
                  /\ (\E i \in 1..Len(parts) :
                          parts[i].part = "header" /\ parts[i].section = s)
                       <=> Hits(SearchOfSection(s)) # {}
                  /\ \A i, j \in 1..Len(parts) :
                        (/\ parts[i].part = "header" /\ parts[i].section = s
                         /\ parts[j].part = "header" /\ parts[j].section = s)
                            => i = j
            /\ \A j \in 1..Len(parts) :
                  parts[j].part = "excerpt"
                      => \E i \in 1..(j - 1) :
                            /\ parts[i].part = "header"
                            /\ parts[i].section = parts[j].section
            /\ \A i \in 1..Len(parts) :
                  parts[i].part = "header"
                      => /\ i < Len(parts)
                         /\ parts[i + 1].part = "excerpt"
                         /\ parts[i + 1].section = parts[i].section

\* A block with an articles and a claims section and no policies section,
\* although the collection holds policies.
C16_Witness ==
    /\ Assembled
    /\ LET parts == sOut.ret.val
       IN  /\ \E i \in 1..Len(parts) : parts[i].section = "articles"
           /\ \E i \in 1..Len(parts) : parts[i].section = "claims"
           /\ \A i \in 1..Len(parts) : parts[i].section # "policies"
    /\ kb.policies # <<>>


\* The excerpts of one section of a block, in block order.
ExcerptsOf(parts, s) ==
    SelectSeq(parts, LAMBDA x : x.part = "excerpt" /\ x.section = s)

\* The first two chunks of an article with a blank line between them.
FirstTwoChunks(chunks) ==
    IF Len(chunks) = 0 THEN <<>>
    ELSE IF Len(chunks) = 1 THEN chunks[1]
    ELSE chunks[1] \o <<"\n", "\n">> \o chunks[2]

\* The first 1500 characters of a guide's content.
ContentHead(content) ==
    IF Len(content) <= 1500 THEN content
    ELSE [i \in 1..1500 |-> content[i]]

\* The text a section shows for a document of its collection.
ExcerptText(s, d) ==
    CASE s = "articles" -> FirstTwoChunks(d.chunks)
      [] s = "policies" -> d.summary
      [] s = "claims" -> ContentHead(d.content)

\* C17: a context block holds at most 2 article, 3 policy and 3 claims
\* excerpts; the i-th excerpt of a section is made from the hit ranked i in
\* its collection, and none of the first hits is skipped; an article excerpt
\* is its first two chunks, a policy excerpt its summary, a claims excerpt
\* the first 1500 characters of its content.
C17_ExcerptsCappedAndRanked ==
    Assembled =>
        \A s \in {"articles", "policies", "claims"} :
            LET ex == ExcerptsOf(sOut.ret.val, s)
                fn == SearchOfSection(s)
                coll == CollectionOf(fn)
            IN  /\ Len(ex) <= ExcerptCap(s)
                /\ Len(ex) = Min(ExcerptCap(s), Cardinality(Hits(fn)))
                /\ \A i \in 1..Len(ex) :
                      \E k \in Hits(fn) :
                          /\ RankOf(fn, k) = i
                          /\ ex[i].title = (IF s = "policies" THEN coll[k].name
                                            ELSE coll[k].title)
                          /\ ex[i].text = ExcerptText(s, coll[k])

\* A block where every cap cut hits off, with an article of three chunks and
\* a guide longer than 1500 characters among the excerpts.
C17_Witness ==
    /\ Assembled
    /\ \A s \in {"articles", "policies", "claims"} :
          /\ Len(ExcerptsOf(sOut.ret.val, s)) = ExcerptCap(s)
          /\ Cardinality(Hits(SearchOfSection(s))) > ExcerptCap(s)
    /\ \E k \in Hits("searchArticles") :
          /\ RankOf("searchArticles", k) <= 2
          /\ Len(kb.articles[k].chunks) > 2
    /\ \E k \in Hits("searchClaimsGuides") :
          /\ RankOf("searchClaimsGuides", k) <= 3
          /\ Len(kb.claimsGuides[k].content) > 1500


(***************************************************************************)
(* Queries that match nothing                                              *)
(***************************************************************************)
SearchOfCapability(name) ==
    CASE name = "search_insurance_knowledge" -> "searchArticles"
      [] name = "search_policies" -> "searchPolicies"
      [] name = "get_claims_guidance" -> "searchClaimsGuides"

NothingFoundKind(name) ==
    CASE name = "search_insurance_knowledge" -> "no_articles"
      [] name = "search_policies" -> "no_policies"
      [] name = "get_claims_guidance" -> "no_claims_guide"

SearchCapabilities ==
    {"search_insurance_knowledge", "search_policies", "get_claims_guidance"}

\* query is a string none of whose tokens matches a keyword or the scored
\* text of any document of the collection, in either direction.
MatchesNothing(fn, query) ==
    /\ IsStr(query)
    /\ \A k \in 1..Len(CollectionOf(fn)) :
          /\ ~TokenAppears(fn, CollectionOf(fn)[k], tokenize(query.s))
          /\ ~KeywordInsideToken(CollectionOf(fn)[k], tokenize(query.s))

\* The search a capability runs, on the input of an invocation.
SearchFor(name, input) ==
    CASE name = "search_insurance_knowledge" ->
            searchArticles(kb, Get(input, "query"), Get(input, "category"), Num(3))
      [] name = "search_policies" ->
            searchPolicies(kb, Get(input, "query"), Get(input, "category"),
                           Get(input, "insurer_name"), Num(5))
      [] name = "get_claims_guidance" ->
            searchClaimsGuides(kb, Get(input, "query"), Get(input, "insurance_type"))

FindsNothing(use) ==
    /\ use.name \in SearchCapabilities
    /\ MatchesNothing(SearchOfCapability(use.name), Get(use.input, "query"))
    /\ ~Truthy(Get(use.input, "insurer_name"))

MessageMatchesNothing(q) ==
    /\ body[q] # Null
    /\ body[q].t = "object"
    /\ Truthy(body[q].message)
    /\ \A fn \in SearchNames : MatchesNothing(fn, body[q].message)

\* C18: a query that matches nothing is answered, not failed. The search of
\* the search capability dispatched last returns the empty sequence; the
\* capability returns its nothing-found text and the question goes on; in
\* the results turn just sent to the engine that text is the invocation's
\* result. For a message that matches nothing the context block is empty
\* and the engine is still called, with the fallback notice in place of the
\* context.
C18_NothingFoundIsAnOutcome ==
    /\ [](\A q \in Qs :
            /\ \A i \in {Len(dispatched[q])} \ {0} :
                  FindsNothing(dispatched[q][i])
                  => SearchFor(dispatched[q][i].name, dispatched[q][i].input) = Ok(<<>>)
            /\ \A k \in {Len(messages[q])} \ {0, 1} :
                  (messages[q][k].role = "user" /\ IsRoundTurn(messages[q][k]))
                  => LET uses == SelectSeq(messages[q][k - 1].content.blocks, IsToolUse)
                         results == messages[q][k].content.blocks
                     IN  \A i \in 1..Len(uses) :
                            FindsNothing(uses[i])
                            => /\ results[i].tool_use_id = uses[i].id
                               /\ results[i].content
                                    = [kind |-> NothingFoundKind(uses[i].name)]
            /\ (MessageMatchesNothing(q) /\ Truthy(env.ANTHROPIC_API_KEY))
                  => /\ buildContext(kb, body[q].message) = Ok(<<>>)
                     /\ engineCalls[q] >= 1
                     /\ lastRequest[q].system.context = <<[part |-> "fallback"]>>)
    /\ [][\A q \in Qs :
            (/\ pc[q] = "AwaitingToolResults"
             /\ Len(dispatched'[q]) = Len(dispatched[q]) + 1
             /\ FindsNothing(dispatched'[q][Len(dispatched'[q])]))
            => /\ pc'[q] = "AwaitingToolResults"
               /\ httpResponse'[q] = Null
               /\ Len(toolResults'[q]) = Len(toolResults[q]) + 1
               /\ toolResults'[q][Len(toolResults'[q])].content
                    = [kind |-> NothingFoundKind(dispatched'[q][Len(dispatched'[q])].name)]]_vars

\* A question whose message matched nothing and that is back at the engine
\* after rounds in which each of the three search capabilities found nothing.
C18_Witness ==
    \E q \in Qs :
        /\ MessageMatchesNothing(q)
        /\ pc[q] = "AwaitingModel"
        /\ lastRequest[q].system.context = <<[part |-> "fallback"]>>
        /\ \A name \in SearchCapabilities :
              \E k \in 1..Len(messages[q]) :
                  /\ IsRoundTurn(messages[q][k])
                  /\ messages[q][k].role = "user"
                  /\ \E i \in 1..Len(messages[q][k].content.blocks) :
                        messages[q][k].content.blocks[i].content
                          = [kind |-> NothingFoundKind(name)]


(***************************************************************************)
(* The caller's history and the corpus                                     *)
(***************************************************************************)
HistoryOf(b) ==
    IF b.t = "object" /\ b.conversationHistory.t = "array"
    THEN b.conversationHistory.a
    ELSE <<>>

\* C19: once a question has been received, no step of its handling, whether
\* it ends in an answer, at the cap or in a failure, changes the request
\* body and the history in it; the turn list the loop works on starts with a
\* copy of the last 10 turns of that history, and the assistant and result
\* turns are appended to the turn list only.
C19_CallerHistoryUntouched ==
    /\ [][\A q \in Qs : body[q] # Null => body'[q] = body[q]]_vars
    /\ [](\A q \in Qs :
            messages[q] # <<>>
            => LET history == HistoryOf(body[q])
                   kept == Min(HISTORY_WINDOW, Len(history))
               IN  /\ Len(messages[q]) >= kept + 1
                   /\ \A i \in 1..kept :
                         /\ messages[q][i].role
                              = history[Len(history) - kept + i].role
                         /\ messages[q][i].content
                              = history[Len(history) - kept + i].content
                   /\ \A i \in 1..Len(history) : ~IsRoundTurn(history[i]))

\* A question that came with a history longer than the window and has ended
\* at the cap, its history as long as it was and its turn list grown by the
\* five rounds.
C19_Witness ==
    \E q \in Qs :
        /\ pc[q] = "Done"
        /\ iterations[q] = maxIterations
        /\ HistoryOf(body[q]) = LongHistory
        /\ Len(messages[q]) = HISTORY_WINDOW + 1 + 2 * maxIterations


\* The corpus as loaded at startup.
LoadedCorpus == DefaultKB

\* C20: no step of any question changes the corpus, which keeps the documents
\* and the order it was loaded with however the questions interleave; the
\* context a question sent and every result in the results turn it sent last
\* are those computed from the loaded corpus, whatever the other questions
\* have done.
C20_CorpusReadOnly ==
    /\ [][kb' = kb]_vars
    /\ [](/\ kb = LoadedCorpus
          /\ \A q \in Qs :
                /\ lastRequest[q] # Null
                      => LET alone == buildContext(LoadedCorpus, body[q].message)
                         IN  /\ alone.ok
                             /\ lastRequest[q].system.context
                                  = (IF alone.val = <<>> THEN <<[part |-> "fallback"]>>
                                     ELSE alone.val)
                /\ \A k \in {Len(messages[q])} \ {0, 1} :
                      (messages[q][k].role = "user" /\ IsRoundTurn(messages[q][k]))
                      => LET uses == SelectSeq(messages[q][k - 1].content.blocks,
                                               IsToolUse)
                             results == messages[q][k].content.blocks
                         IN  \A i \in 1..Len(uses) :
                                results[i].content
                                  = executeTool(LoadedCorpus, env, uses[i].name,
                                                uses[i].input).val)

\* Every question has had a search dispatched and has sent its results to
\* the engine while another question was between dispatch and resubmission.
C20_Witness ==
    /\ Cardinality(Qs) >= 2
    /\ \A q \in Qs :
          /\ \E i \in 1..Len(dispatched[q]) : dispatched[q][i].name = "search_policies"
          /\ iterations[q] >= 1
    /\ \E q \in Qs : pc[q] = "AwaitingModel" /\ Len(messages[q]) >= 3
    /\ \E q \in Qs : pc[q] = "AwaitingToolResults" /\ toolResults[q] # <<>>


(***************************************************************************)
(* Properties of a dispatch round                                          *)
(***************************************************************************)
\* What an invocation returns when it is the only one dispatched.
Alone(toolUse) == executeTool(LoadedCorpus, env, toolUse.name, toolUse.input)

BlockOfId(id) == CHOOSE i \in 1..Len(sArgs.blocks) : sArgs.blocks[i].id = id

\* C21: in whatever order the invocations of a round are dispatched, each
\* call identifier is paired with the text its invocation returns when it is
\* dispatched alone, and the round fails only at an invocation that fails
\* alone; the results therefore are the same for every order.
C21_ResultsIndependentOfOrder ==
    /\ \A j \in 1..Len(sOut.results) :
          LET toolUse == sArgs.blocks[sArgs.order[j]]
          IN  /\ sOut.results[j].tool_use_id = toolUse.id
              /\ Alone(toolUse).ok
              /\ sOut.results[j].content = Alone(toolUse).val
    /\ sOut.failed
          => /\ Len(sOut.results) < Len(sArgs.blocks)
             /\ ~Alone(sArgs.blocks[sArgs.order[Len(sOut.results) + 1]]).ok
    /\ kb = LoadedCorpus

\* A round of five invocations, among them a booking and two searches,
\* dispatched to the end in the reverse of the response's order.
C21_Witness ==
    /\ Len(sArgs.blocks) = 5
    /\ Len(sOut.results) = 5
    /\ \A i \in 1..5 : sArgs.order[i] = 6 - i
    /\ \E j \in 1..5 : sOut.results[j].content.kind = "booking"
    /\ sOut.results[1].content.kind = "no_policies"
    /\ Truthy(env.NEXT_PUBLIC_BOOKING_URL)


IsUnknownOutcome(r) == r.ok /\ r.val.kind = "unknown_tool"

\* C22: the catalog lists no name twice; an invocation of a catalog name,
\* with the input of any invocation of the round, never yields the
\* unknown-capability text; and a dispatched invocation was answered with
\* that text exactly when its name is not in the catalog.
C22_CatalogMatchesDispatch ==
    /\ \A i, j \in 1..Len(TOOLS) : TOOLS[i] = TOOLS[j] => i = j
    /\ \A name \in ToolNames : \A i \in 1..Len(sArgs.blocks) :
          ~IsUnknownOutcome(executeTool(kb, env, name, sArgs.blocks[i].input))
    /\ \A j \in 1..Len(sOut.results) :
          (sOut.results[j].content.kind = "unknown_tool")
              <=> sArgs.blocks[sArgs.order[j]].name \notin ToolNames

\* A finished round that holds an invocation of a name outside the catalog
\* and four of catalog names.
C22_Witness ==
    /\ Len(sOut.results) = Len(sArgs.blocks)
    /\ \E j \in 1..Len(sOut.results) : sOut.results[j].content.kind = "unknown_tool"
    /\ Cardinality({sArgs.blocks[i].name : i \in 1..Len(sArgs.blocks)}
                       \cap ToolNames) = 4


(***************************************************************************)
(* Parameter defaults of the capabilities                                  *)
(***************************************************************************)
\* The value of a parameter as documented: the supplied one if the input has
\* the key, else the default.
SuppliedOr(input, key, default) ==
    IF key \in DOMAIN input THEN input[key] ELSE default

\* The first option of the enum the catalog declares for category and
\* insurance_type.
FirstCategoryOption == Str(catHealth)

ExpectedTermInput(input) ==
    [annual_income |-> SuppliedOr(input, "annual_income", Num(0)),
     monthly_expenses |-> SuppliedOr(input, "monthly_expenses", Num(0)),
     total_debts |-> SuppliedOr(input, "total_debts", Num(0)),
     num_children |-> SuppliedOr(input, "num_children", Num(0)),
     education_goal_per_child |->
         SuppliedOr(input, "education_goal_per_child", Num(2500000)),
     existing_life_cover |-> SuppliedOr(input, "existing_life_cover", Num(0)),
     current_age |-> SuppliedOr(input, "current_age", Num(30)),
     retirement_age |-> SuppliedOr(input, "retirement_age", Num(60))]

ExpectedHealthInput(input) ==
    [city_tier |-> SuppliedOr(input, "city_tier", Str(cityMetro)),
     family_members |-> SuppliedOr(input, "family_members", Arr(<<Num(30)>>)),
     has_preexisting |-> SuppliedOr(input, "has_preexisting", Bool(FALSE)),
     corporate_cover |-> SuppliedOr(input, "corporate_cover", Num(0)),
     monthly_income |-> SuppliedOr(input, "monthly_income", Num(0))]

\* The answer the capability owes an invocation when every missing
\* parameter takes its documented default and every supplied one is used.
ExpectedAnswer(toolUse) ==
    CASE toolUse.name = "calculate_term_coverage" ->
            [kind |-> "term_coverage",
             result |-> calculateTermCoverage(ExpectedTermInput(toolUse.input)).val]
      [] toolUse.name = "calculate_health_coverage" ->
            [kind |-> "health_coverage",
             result |-> calculateHealthCoverage(ExpectedHealthInput(toolUse.input)).val]
      [] toolUse.name \in {"search_insurance_knowledge", "search_policies"} ->
            executeTool(kb, env, toolUse.name,
                [k \in DOMAIN toolUse.input \cup {"category"} |->
                    SuppliedOr(toolUse.input, k, FirstCategoryOption)]).val
      [] toolUse.name = "get_claims_guidance" ->
            executeTool(kb, env, toolUse.name,
                [k \in DOMAIN toolUse.input \cup {"insurance_type"} |->
                    SuppliedOr(toolUse.input, k, FirstCategoryOption)]).val

\* C23 as stated, for the calculators: an invocation is answered as if every
\* missing numeric parameter were 0 or its documented value, a missing city
\* tier the first option of its enum, and every supplied parameter the value
\* supplied.
C23_DefaultsOnlyWhenMissing ==
    \A j \in 1..Len(sOut.results) :
        LET toolUse == sArgs.blocks[sArgs.order[j]]
        IN  toolUse.name \in {"calculate_term_coverage", "calculate_health_coverage"}
            => sOut.results[j].content = ExpectedAnswer(toolUse)

\* The enum part of C23 for the searches: an invocation without category
\* (insurance_type for claims guidance) is answered as if the first option
\* of the enum had been supplied.
C23_MissingCategoryIsFirstOption ==
    \A j \in 1..Len(sOut.results) :
        LET toolUse == sArgs.blocks[sArgs.order[j]]
        IN  toolUse.name \in SearchCapabilities
            => sOut.results[j].content = ExpectedAnswer(toolUse)

\* The part of C23 that holds: a calculator parameter that is missing takes
\* 0 or its documented value, the city tier the first option of its enum.
C23_MissingCalculatorParameters ==
    \A j \in 1..Len(sOut.results) :
        LET toolUse == sArgs.blocks[sArgs.order[j]]
        IN  (/\ toolUse.name \in {"calculate_term_coverage", "calculate_health_coverage"}
             /\ \A k \in DOMAIN toolUse.input : Truthy(toolUse.input[k]))
            => sOut.results[j].content = ExpectedAnswer(toolUse)


(***************************************************************************)
(* Properties of the health calculator                                     *)
(***************************************************************************)
HealthAnswered == sOut # Null /\ sOut.fn = "calculate_health_coverage"

\* C24: for every city tier, non-empty list of ages, pre-existing flag and
\* corporate cover of 0 or more, the health-coverage capability answers with
\* a recommended cover that is a positive multiple of 5 lakh and a base plan
\* of at most 25 lakh.
C24_CoverIsMultipleOfFive ==
    HealthAnswered =>
        /\ sOut.ret.ok
        /\ sOut.ret.val.kind = "health_coverage"
        /\ sOut.ret.val.result.recommended_cover_lakhs > 0
        /\ sOut.ret.val.result.recommended_cover_lakhs % 5 = 0
        /\ sOut.ret.val.result.base_plan_lakhs <= 25
        /\ sOut.ret.val.result.base_plan_lakhs >= 0

\* The catalog's example: metro, ages 35, 32 and 5, no pre-existing
\* condition, no corporate cover; the answer is 25 lakh in one base plan.
C24_Witness ==
    /\ HealthAnswered
    /\ sArgs = [city_tier |-> Str(cityMetro),
                family_members |-> Arr(<<Num(35), Num(32), Num(5)>>),
                has_preexisting |-> Bool(FALSE),
                corporate_cover |-> Num(0)]
    /\ sOut.ret.val.result.recommended_cover_lakhs = 25
    /\ sOut.ret.val.result.base_plan_lakhs = 25


(***************************************************************************)
(* Article search for "what is no claim bonus"                             *)
(***************************************************************************)
wWhat == <<"w", "h", "a", "t">>
wClaim == <<"c", "l", "a", "i", "m">>
wBonus == <<"b", "o", "n", "u", "s">>
kwNoClaimBonus == <<"n", "o">> \o sp \o wClaim \o sp \o wBonus

\* The question as typed, and as a voice transcript spells it.
BonusQueries ==
    { Str(wWhat \o sp \o <<"i", "s">> \o sp \o kwNoClaimBonus),
      Str(<<"W", "h", "a", "t">> \o sp \o <<"i", "s">> \o sp \o <<"N", "o">>
          \o sp \o <<"C", "l", "a", "i", "m">> \o sp
          \o <<"B", "o", "n", "u", "s", "?">>) }

\* Articles a collection may hold next to the one on the no-claim bonus:
\* two without a keyword for any word of the question (one repeats every
\* word of the question in its text, one none), and four with such a
\* keyword.
BonusPool ==
    << [id |-> <<"b", "1">>, title |-> <<"N", "C", "B">>, category |-> catHealth,
        keywords |-> <<wNcb, kwNoClaimBonus>>,
        chunks |-> <<wNcb \o sp \o wOpd>>],
       [id |-> <<"b", "2">>, title |-> wWhat \o sp \o wClaim \o sp \o wBonus,
        category |-> catHealth, keywords |-> <<wTax>>,
        chunks |-> <<wWhat \o sp \o wClaim, wBonus \o sp \o wBonus>>],
       [id |-> <<"b", "3">>, title |-> <<"O", "p", "d">>, category |-> catTerm,
        keywords |-> <<wOpd>>,
        chunks |-> <<wOpd \o sp \o wCash>>],
       [id |-> <<"b", "4">>, title |-> <<"C", "l", "a", "i", "m", "s">>,
        category |-> catHealth, keywords |-> <<wClaim, wBonus, wWhat>>,
        chunks |-> <<wWhat \o sp \o wClaim \o sp \o wBonus>>],
       [id |-> <<"b", "5">>, title |-> <<"B", "o", "n", "u", "s">>,
        category |-> catHealth, keywords |-> <<wBonus \o sp \o wClaim>>,
        chunks |-> <<wClaim \o sp \o wWhat>>],
       [id |-> <<"b", "6">>, title |-> <<"W", "h", "a", "t">>,
        category |-> catTerm, keywords |-> <<<<"b", "o", "n">>, wClaim>>,
        chunks |-> <<wBonus \o sp \o wClaim>>],
       [id |-> <<"b", "7">>, title |-> <<"T", "e", "r", "m">>,
        category |-> catHealth, keywords |-> <<wClaim \o <<"s">>, wBonus>>,
        chunks |-> <<wClaim \o <<"s">> >>] >>

MaxArticles == 5

\* Every collection of 2..MaxArticles distinct articles of the pool, in
\* every order, that holds the article on the no-claim bonus.
BonusCollections ==
    UNION { {s \in [1..n -> 1..Len(BonusPool)] :
                /\ \A i, j \in 1..n : s[i] = s[j] => i = j
                /\ \E i \in 1..n : s[i] = 1} :
            n \in 2..Min(MaxArticles, Len(BonusPool)) }

BonusKB(s) ==
    [articles |-> [i \in 1..Len(s) |-> BonusPool[s[i]]],
     policies |-> <<>>, claimsGuides |-> <<>>, insurers |-> <<>>]

InitBonus ==
    /\ kb \in {BonusKB(s) : s \in BonusCollections}
    /\ env = [ANTHROPIC_API_KEY |-> Undefined, NEXT_PUBLIC_BOOKING_URL |-> Undefined]
    /\ sArgs \in [query : BonusQueries, category : {Undefined, Str(catHealth)},
                  insurerName : {Undefined},
                  maxResults : {Undefined, Num(2), Num(MaxResults)}]
    /\ sOut = Null
    /\ pc = NoQuestions /\ body = NoQuestions /\ messages = NoQuestions
    /\ response = NoQuestions /\ iterations = NoQuestions
    /\ toolUseBlocks = NoQuestions /\ toolResults = NoQuestions
    /\ inflight = NoQuestions /\ engineCalls = NoQuestions
    /\ lastRequest = NoQuestions /\ dispatched = NoQuestions
    /\ httpResponse = NoQuestions
    /\ NoPage

NextBonus == CallSearchArticles

SpecBonus == InitBonus /\ [][NextBonus]_vars

\* The words of the question that are longer than two characters.
BonusTokens == {wWhat, wClaim, wBonus}

\* d has a keyword that holds a word of the question or lies inside one.
HasMatchingKeyword(d) ==
    \E k \in 1..Len(d.keywords) : \E t \in BonusTokens :
        includes(d.keywords[k], t) \/ includes(t, d.keywords[k])

HasBonusKeyword(d) == \E k \in 1..Len(d.keywords) : d.keywords[k] = kwNoClaimBonus

ResultPosition(d) ==
    IF InResult(d)
    THEN CHOOSE i \in 1..Len(sOut.ret.val) : sOut.ret.val[i] = d
    ELSE 0

\* The other articles of the collection that pass the call's category filter
\* and have a keyword matching a word of the question.
KeywordRivals(k) ==
    {j \in 1..Len(kb.articles) \ {k} :
        /\ PassesFilters("searchArticles", kb.articles[j])
        /\ HasMatchingKeyword(kb.articles[j])}

BonusSearched == Returned /\ sOut.fn = "searchArticles" /\ sArgs.query \in BonusQueries

\* C25 as stated: with no category filter and the default limit, an article
\* with the keyword "no claim bonus" is returned, and it precedes every
\* returned article that has no keyword matching a word of the question.
C25_KeywordArticleAlwaysReturned ==
    (BonusSearched /\ sArgs.category = Undefined /\ sArgs.maxResults = Undefined) =>
        \A k \in 1..Len(kb.articles) :
            HasBonusKeyword(kb.articles[k]) =>
                /\ InResult(kb.articles[k])
                /\ \A i \in 1..Len(sOut.ret.val) :
                      ~HasMatchingKeyword(sOut.ret.val[i])
                          => ResultPosition(kb.articles[k]) < i

\* C25 amended: an article with the keyword "no claim bonus" that passes the
\* category filter is returned whenever fewer articles than the limit of the
\* call pass the filter and have a keyword matching a word of the question;
\* and no article without such a keyword is returned unless the keyword
\* article is returned before it, whatever its text and position.
C25_ReturnedUnlessCrowdedOut ==
    BonusSearched =>
        \A k \in 1..Len(kb.articles) :
            (/\ HasBonusKeyword(kb.articles[k])
             /\ PassesFilters("searchArticles", kb.articles[k])) =>
                /\ Cardinality(KeywordRivals(k)) < LimitOf("searchArticles")
                      => InResult(kb.articles[k])
                /\ \A i \in 1..Len(sOut.ret.val) :
                      ~HasMatchingKeyword(sOut.ret.val[i])
                          => /\ InResult(kb.articles[k])
                             /\ ResultPosition(kb.articles[k]) < i

\* The keyword article is listed last, after an article that repeats every
\* word of the question in its text but has no matching keyword; both are
\* returned and the keyword article comes first.
C25_Witness ==
    /\ BonusSearched
    /\ LET docs == sOut.ret.val
           n == Len(kb.articles)
       IN  /\ HasBonusKeyword(kb.articles[n])
           /\ InResult(kb.articles[n])
           /\ \E j \in 1..(n - 1) : \E i \in 1..Len(docs) :
                 /\ docs[i] = kb.articles[j]
                 /\ ~HasMatchingKeyword(docs[i])
                 /\ includes(articleText(docs[i]), wClaim)
                 /\ ResultPosition(kb.articles[n]) < i


(***************************************************************************)
(* One question asked with a caller history of every length                *)
(***************************************************************************)
\* A caller history of n turns, each with a content of its own.
CallerHistory(n) == SubSeq(LongHistory, 1, n)

HistoryBodies ==
    { [t |-> "object", message |-> Str(wTax \o sp \o wNcb),
       conversationHistory |-> Arr(CallerHistory(n)), language |-> Undefined] :
      n \in 0..MaxHistory }
    \cup
    { [t |-> "object", message |-> Str(wOpd),
       conversationHistory |-> Undefined, language |-> Undefined] }

HistoryResponses == {respTwoPolicySearches, respUnknownAndBooking, respTwoTexts}

InitHistory ==
    InitLoop({1}, {[ANTHROPIC_API_KEY |-> Str(<<"s", "k">>),
                    NEXT_PUBLIC_BOOKING_URL |-> Undefined]})

NextHistory ==
    \/ Receive(1, HistoryBodies)
    \/ EngineReturn(1, HistoryResponses)
    \/ EngineFail(1)
    \/ ExecuteNextTool(1)
    \/ Resubmit(1)

SpecHistory == InitHistory /\ [][NextHistory]_vars

\* The dispatch rounds of question q whose turns have been sent on: every
\* engine call after the first follows one such round.
RoundsSent(q) == engineCalls[q] - 1

\* The turns of the caller's history that the window keeps, oldest first.
WindowOf(b) ==
    LET h == HistoryOf(b)
        n == Len(h)
        w == IF n < HISTORY_WINDOW THEN n ELSE HISTORY_WINDOW
    IN  [i \in 1..w |-> [role |-> h[n - w + i].role, content |-> h[n - w + i].content]]

\* C26: the turn list of a question starts with the last min(10, n) turns of
\* the caller's n-turn history in their order, followed by the new user
\* message; the first engine request carries exactly these turns; after k
\* dispatch rounds the list has min(10, n) + 1 + 2k turns, and no step
\* changes, removes or reorders a turn the list already holds.
C26_TurnListIsWindowThenAppendOnly ==
    /\ [](\A q \in Qs :
            engineCalls[q] >= 1 =>
                LET win == WindowOf(body[q])
                    w == Len(win)
                IN  /\ Len(messages[q]) = w + 1 + 2 * RoundsSent(q)
                    /\ SubSeq(messages[q], 1, w) = win
                    /\ messages[q][w + 1] = [role |-> "user", content |-> body[q].message]
                    /\ engineCalls[q] = 1 =>
                          lastRequest[q].messages = win \o <<messages[q][w + 1]>>
                    /\ pc[q] = "AwaitingModel" => lastRequest[q].messages = messages[q])
    /\ [][\A q \in Qs :
            /\ Len(messages'[q]) >= Len(messages[q])
            /\ SubSeq(messages'[q], 1, Len(messages[q])) = messages[q]]_vars

\* Histories on both sides of the window have been through dispatch rounds:
\* this question came with fewer than 10 turns, of which the first and the
\* last are still the first turns of the list after two rounds.
C26_Witness ==
    \E q \in Qs :
        /\ engineCalls[q] = 3
        /\ Len(HistoryOf(body[q])) = 3
        /\ Len(messages[q]) = 8
        /\ messages[q][1].content = HistoryOf(body[q])[1].content
        /\ messages[q][3].content = HistoryOf(body[q])[3].content


(***************************************************************************)
(* Properties of the chat reply                                            *)
(***************************************************************************)
\* The booking capability was executed for question q.
BookingExecuted(q) ==
    \E i \in 1..Len(dispatched[q]) : dispatched[q][i].name = "book_consultation"

\* The link the booking capability returns: the configured one, else the
\* built-in one.
BookingUrlReturned ==
    IF Truthy(env.NEXT_PUBLIC_BOOKING_URL)
    THEN env.NEXT_PUBLIC_BOOKING_URL
    ELSE Str(DEFAULT_BOOKING_URL)

\* C27: in the reply to an answered question, bookingUrl is the link the
\* booking capability returned if that capability was executed for the
\* question, and null if it was not.
C27_BookingUrlFromToolResults ==
    \A q \in Qs :
        pc[q] = "Done" =>
            httpResponse[q].bookingUrl =
                IF BookingExecuted(q) THEN BookingUrlReturned ELSE Null


\* Nothing has been done for question q: no context and no request were
\* built, no turn list was begun, the engine was not called and no
\* capability was dispatched.
NoWorkDone(q) ==
    /\ lastRequest[q] = Null
    /\ messages[q] = <<>>
    /\ engineCalls[q] = 0
    /\ inflight[q] = {}
    /\ dispatched[q] = <<>>
    /\ response[q] = Null

MessageMissingOrEmpty(b) ==
    b.t = "object" /\ (b.message = Undefined \/ b.message = Str(<<>>))

\* C28: a received request is answered with HTTP 500 when the engine API
\* key is not configured, whatever its body; otherwise with HTTP 400 when
\* its message is missing or empty; in both cases nothing has been done for
\* it and nothing is done afterwards.
C28_RejectedBeforeAnyWork ==
    \A q \in Qs :
        pc[q] # "Idle" =>
            /\ ~Truthy(env.ANTHROPIC_API_KEY) =>
                  /\ httpResponse[q] # Null
                  /\ httpResponse[q].status = 500
                  /\ httpResponse[q].error = "Anthropic API key not configured"
                  /\ NoWorkDone(q)
            /\ (Truthy(env.ANTHROPIC_API_KEY) /\ MessageMissingOrEmpty(body[q])) =>
                  /\ httpResponse[q] # Null
                  /\ httpResponse[q].status = 400
                  /\ httpResponse[q].error = "No message provided"
                  /\ NoWorkDone(q)

\* With the key configured, a request with an empty message and a history
\* of turns has been answered 400.
C28_Witness ==
    \E q \in Qs :
        /\ pc[q] = "Rejected"
        /\ Truthy(env.ANTHROPIC_API_KEY)
        /\ body[q].message = Str(<<>>)
        /\ HistoryOf(body[q]) # <<>>
        /\ httpResponse[q].status = 400
        /\ NoWorkDone(q)


(***************************************************************************)
(* The page (app/page.tsx, components/VoiceButton.tsx, TextInput.tsx)      *)
(*                                                                         *)
(* A step is one event handler or one continuation of an async function    *)
(* up to its next await, together with the render that follows its state   *)
(* updates.  A closure is what the functions made by one render read:       *)
(* that render's `messages` and `language`.                                 *)
(***************************************************************************)
Closure(msgs, lang) == [messages |-> msgs, language |-> lang]

\* The functions made by the render in progress.
ThisRender == Closure(chat, pageLanguage)

\* useCallback(async () => { await startRecordingFn(); }, [language]): the
\* function is replaced only by a render in which language has changed.
memoised(old, oldLanguage, newChat, newLanguage) ==
    IF newLanguage # oldLanguage THEN Closure(newChat, newLanguage) ELSE old

\* setMessages((prev) => [...prev, msg])
addMessage(msgs, role) == Append(msgs, [role |-> role, content |-> Len(msgs) + 1])

\* const isProcessing = ['processing', 'thinking', 'speaking'].includes(status)
isProcessing == pageStatus \in {"processing", "thinking", "speaking"}

\* const showSuggestions = messages.length === 0 && status === 'idle'
showSuggestions == chat = <<>> /\ pageStatus = "idle"

\* messages.slice(-10).map((m) => ({ role: m.role, content: m.content }))
sentHistory(msgs) == sliceLast(msgs, 10)

\* The body of fetch('/api/chat') as sendToChat of the closure c builds it.
\* Kept with it: how the question was put (via) and the chat as it stood
\* when it was put (asked).
chatFetch(c, text, via, asked) ==
    [message |-> text, conversationHistory |-> sentHistory(c.messages),
     language |-> c.language, via |-> via, asked |-> asked]

remove(seq, i) == SubSeq(seq, 1, i - 1) \o SubSeq(seq, i + 1, Len(seq))

MaxUserActions == 4

\* TextInput.handleSend -> handleTextInput: addMessage, then sendToChat up to
\* its fetch.
SendText ==
    /\ UNCHANGED serverVars
    /\ userActions < MaxUserActions
    /\ ~isProcessing
    /\ userActions' = userActions + 1
    /\ chat' = addMessage(chat, "user")
    /\ pageStatus' = "thinking"
    /\ chatFetches' =
          Append(chatFetches, chatFetch(ThisRender, Len(chat) + 1, "text box", chat))
    /\ UNCHANGED <<pageLanguage, startRecording, getUserMedia, mediaRecorderRef,
                   stopping, transcribeFetches, synthFetches, audioPlayerRef>>

\* SuggestedQuestions.onSelect -> handleSuggestion; the suggestions are
\* shown while showSuggestions holds.
PickSuggestion ==
    /\ UNCHANGED serverVars
    /\ userActions < MaxUserActions
    /\ showSuggestions
    /\ userActions' = userActions + 1
    /\ chat' = addMessage(chat, "user")
    /\ pageStatus' = "thinking"
    /\ chatFetches' =
          Append(chatFetches, chatFetch(ThisRender, Len(chat) + 1, "suggestion", chat))
    /\ UNCHANGED <<pageLanguage, startRecording, getUserMedia, mediaRecorderRef,
                   stopping, transcribeFetches, synthFetches, audioPlayerRef>>

\* LanguageToggle.onChange = setLanguage
ToggleLanguage ==
    /\ UNCHANGED serverVars
    /\ userActions < MaxUserActions
    /\ userActions' = userActions + 1
    /\ \E lang \in {"en", "hi"} :
        /\ lang # pageLanguage
        /\ pageLanguage' = lang
        /\ startRecording' = memoised(startRecording, pageLanguage, chat, lang)
    /\ UNCHANGED <<pageStatus, chat, getUserMedia, mediaRecorderRef, stopping,
                   transcribeFetches, chatFetches, synthFetches, audioPlayerRef>>

\* VoiceButton.handleClick while idle or in error: onStart, which runs
\* startRecordingFn up to `await navigator.mediaDevices.getUserMedia`.
ClickToSpeak ==
    /\ UNCHANGED serverVars
    /\ userActions < MaxUserActions
    /\ pageStatus \in {"idle", "error"}
    /\ userActions' = userActions + 1
    /\ getUserMedia' = Append(getUserMedia, startRecording)
    /\ UNCHANGED <<pageStatus, pageLanguage, chat, startRecording, mediaRecorderRef,
                   stopping, transcribeFetches, chatFetches, synthFetches,
                   audioPlayerRef>>

\* VoiceButton.handleClick while listening: onStop = stopRecording.
ClickToStop ==
    /\ UNCHANGED serverVars
    /\ userActions < MaxUserActions
    /\ pageStatus = "listening"
    /\ userActions' = userActions + 1
    /\ IF mediaRecorderRef # Null /\ mediaRecorderRef.state # "inactive"
       THEN /\ mediaRecorderRef' = [mediaRecorderRef EXCEPT !.state = "inactive"]
            /\ stopping' = Append(stopping, mediaRecorderRef.closure)
            /\ pageStatus' = "processing"
       ELSE UNCHANGED <<mediaRecorderRef, stopping, pageStatus>>
    /\ UNCHANGED <<pageLanguage, chat, startRecording, getUserMedia,
                   transcribeFetches, chatFetches, synthFetches, audioPlayerRef>>

\* getUserMedia resolves: the recorder is made and started.
MicrophoneGranted ==
    /\ UNCHANGED serverVars
    /\ \E i \in 1..Len(getUserMedia) :
           /\ getUserMedia' = remove(getUserMedia, i)
           /\ mediaRecorderRef' = [state |-> "recording", closure |-> getUserMedia[i]]
           /\ pageStatus' = "listening"
           /\ UNCHANGED <<pageLanguage, chat, startRecording, stopping,
                          transcribeFetches, chatFetches, synthFetches,
                          audioPlayerRef, userActions>>

\* getUserMedia rejects: the catch block of startRecordingFn.
MicrophoneDenied ==
    /\ UNCHANGED serverVars
    /\ \E i \in 1..Len(getUserMedia) :
           /\ getUserMedia' = remove(getUserMedia, i)
           /\ pageStatus' = "error"
           /\ chat' = addMessage(chat, "assistant")
           /\ UNCHANGED <<pageLanguage, startRecording, mediaRecorderRef, stopping,
                          transcribeFetches, chatFetches, synthFetches,
                          audioPlayerRef, userActions>>

\* mediaRecorder.onstop: with audio recorded, processAudio runs up to its
\* fetch of /api/transcribe.
RecorderStopped ==
    /\ UNCHANGED serverVars
    /\ \E i \in 1..Len(stopping), recorded \in BOOLEAN :
           /\ stopping' = remove(stopping, i)
           /\ IF recorded
              THEN /\ pageStatus' = "processing"
                   /\ transcribeFetches' = Append(transcribeFetches, stopping[i])
              ELSE UNCHANGED <<pageStatus, transcribeFetches>>
           /\ UNCHANGED <<pageLanguage, chat, startRecording, getUserMedia,
                          mediaRecorderRef, chatFetches, synthFetches,
                          audioPlayerRef, userActions>>

TranscribeOutcomes ==
    {[ok |-> FALSE]} \cup
    [ok : {TRUE}, transcript : {"", "text"}, language : {"en", "hi"}]

\* The transcription arrives: processAudio goes on, through sendToChat up to
\* its fetch when there is a transcript.
TranscribeReturn ==
    /\ UNCHANGED serverVars
    /\ \E i \in 1..Len(transcribeFetches), res \in TranscribeOutcomes :
           LET c == transcribeFetches[i]
           IN  /\ transcribeFetches' = remove(transcribeFetches, i)
               /\ IF ~res.ok
                  THEN /\ pageStatus' = "error"
                       /\ chat' = addMessage(chat, "assistant")
                       /\ UNCHANGED <<pageLanguage, startRecording, chatFetches>>
                  ELSE IF res.transcript = ""
                  THEN /\ pageStatus' = "idle"
                       /\ chat' = addMessage(chat, "assistant")
                       /\ UNCHANGED <<pageLanguage, startRecording, chatFetches>>
                  ELSE /\ pageLanguage' =
                             IF res.language = "hi" /\ c.language # "hi"
                             THEN "hi" ELSE pageLanguage
                       /\ chat' = addMessage(chat, "user")
                       /\ startRecording' =
                             memoised(startRecording, pageLanguage, chat', pageLanguage')
                       /\ pageStatus' = "thinking"
                       /\ chatFetches' =
                             Append(chatFetches,
                                    chatFetch(c, Len(chat) + 1, "voice", chat))
               /\ UNCHANGED <<getUserMedia, mediaRecorderRef, stopping, synthFetches,
                              audioPlayerRef, userActions>>

\* The chat reply arrives: sendToChat goes on, through synthesizeSpeech up
\* to its fetch; a failed reply goes to the catch block.
ChatReturn ==
    /\ UNCHANGED serverVars
    /\ \E i \in 1..Len(chatFetches), ok \in BOOLEAN :
           /\ chatFetches' = remove(chatFetches, i)
           /\ chat' = addMessage(chat, "assistant")
           /\ IF ok
              THEN /\ pageStatus' = "speaking"
                   /\ synthFetches' = synthFetches + 1
              ELSE /\ pageStatus' = "error"
                   /\ UNCHANGED synthFetches
           /\ UNCHANGED <<pageLanguage, startRecording, getUserMedia, mediaRecorderRef,
                          stopping, transcribeFetches, audioPlayerRef, userActions>>

\* The synthesized speech arrives and is played, or synthesis has failed.
SynthesizeReturn ==
    /\ UNCHANGED serverVars
    /\ synthFetches > 0
    /\ synthFetches' = synthFetches - 1
    /\ \E ok \in BOOLEAN :
        IF ok
        THEN audioPlayerRef' = "playing" /\ UNCHANGED pageStatus
        ELSE pageStatus' = "idle" /\ UNCHANGED audioPlayerRef
    /\ UNCHANGED <<pageLanguage, chat, startRecording, getUserMedia,
                   mediaRecorderRef, stopping, transcribeFetches, chatFetches,
                   userActions>>

\* audio.onended: the audio has played to its end and the ref is null again.
AudioEnded ==
    /\ UNCHANGED serverVars
    /\ audioPlayerRef = "playing"
    /\ audioPlayerRef' = "ended"
    /\ pageStatus' = "idle"
    /\ UNCHANGED <<pageLanguage, chat, startRecording, getUserMedia,
                   mediaRecorderRef, stopping, transcribeFetches, chatFetches,
                   synthFetches, userActions>>

\* A chat of n messages from earlier questions and their answers.
EarlierChat(n) ==
    [i \in 1..n |-> [role |-> IF i % 2 = 1 THEN "user" ELSE "assistant",
                     content |-> i]]

MaxEarlier == 12

\* The page with nothing pending: freshly mounted, or idle after earlier
\* questions, with startRecording made by the first render or by the render
\* of a later change of language.
InitPage ==
    /\ kb = DefaultKB
    /\ env = [ANTHROPIC_API_KEY |-> Str(<<"s", "k">>),
              NEXT_PUBLIC_BOOKING_URL |-> Undefined]
    /\ sArgs = Null /\ sOut = Null
    /\ pc = NoQuestions /\ body = NoQuestions /\ messages = NoQuestions
    /\ response = NoQuestions /\ iterations = NoQuestions
    /\ toolUseBlocks = NoQuestions /\ toolResults = NoQuestions
    /\ inflight = NoQuestions /\ engineCalls = NoQuestions
    /\ lastRequest = NoQuestions /\ dispatched = NoQuestions
    /\ httpResponse = NoQuestions
    /\ pageStatus = "idle"
    /\ pageLanguage \in {"en", "hi"}
    /\ \E n \in {0, MaxEarlier} :
        /\ chat = EarlierChat(n)
        /\ \E m \in {0, n} :
              startRecording = Closure(EarlierChat(m), pageLanguage)
    /\ getUserMedia = <<>>
    /\ mediaRecorderRef = Null
    /\ stopping = <<>>
    /\ transcribeFetches = <<>>
    /\ chatFetches = <<>>
    /\ synthFetches = 0
    /\ audioPlayerRef = "none"
    /\ userActions = 0

NextPage ==
    \/ SendText
    \/ PickSuggestion
    \/ ToggleLanguage
    \/ ClickToSpeak
    \/ ClickToStop
    \/ MicrophoneGranted
    \/ MicrophoneDenied
    \/ RecorderStopped
    \/ TranscribeReturn
    \/ ChatReturn
    \/ SynthesizeReturn
    \/ AudioEnded

SpecPage == InitPage /\ [][NextPage]_vars

(***************************************************************************)
(* Properties of the page                                                  *)
(***************************************************************************)
\* C29: every pending chat request carries as conversationHistory the last
\* 10 messages of the chat as it stood when its question was asked.
C29_HistoryIsChatWhenAsked ==
    \A i \in 1..Len(chatFetches) :
        chatFetches[i].conversationHistory = sliceLast(chatFetches[i].asked, 10)

\* C30: at most one chat request is pending at any time.
C30_OneChatRequestAtATime == Len(chatFetches) <= 1

====
